---- MODULE Spec2Model ----
(***************************************************************************)
(* duckql: the pooled, retrying query executor (duckql/execution/          *)
(* executor.py) and the GraphQL filter to SQL translator                   *)
(* (duckql/execution/translator.py).                                       *)
(*                                                                         *)
(* Spec        the executor: worker threads of the ThreadPoolExecutor run  *)
(*             _execute_sync (the with_retry wrapper around one attempt)   *)
(*             against the ConnectionPool, next to code that borrows from  *)
(*             the pool directly.                                          *)
(* SpecFilter  translate_where applied to a bounded set of filter trees.   *)
(* SpecKey     the field/operator split of _build_field_condition applied  *)
(*             to a bounded set of leaf keys.                              *)
(* SpecCall    two callers in translate_where on one translator object.    *)
(* SpecSub     the placeholder substitution of _execute_sync.              *)
(* SpecErr     execute_query's error path and enhance_duckdb_error.        *)
(* SpecTotal   translate_where on filters with malformed combinators.      *)
(* SpecHaving  the HAVING loop of aggregate_resolver.                      *)
(* SpecReshape the reshaping of a result row by aggregate_resolver.        *)
(* SpecStats   execute_query's reports to the collector and its counters.  *)
(* SpecRetry   with_retry's wrapper and async_wrapper side by side.        *)
(* SpecCopy    _copy_schema_to_pool at construction.                       *)
(* SpecLife    the executor with cancelled callers and close().            *)
(***************************************************************************)
EXTENDS Integers, Sequences, FiniteSets, TLC

VARIABLES
    max_retries,     \* QueryExecutor.max_retries
    pool,            \* ConnectionPool._pool: the FIFO queue of idle connections
    closed,          \* connections on which close() was called
    borrowed,        \* connections held by direct callers of the pool
    pc,              \* per worker: where it is in _execute_sync / wrapper
    conn,            \* per worker: execute_with_retry's local conn (a set, empty = none)
    attempt,         \* per worker: wrapper's loop variable
    current_delay,   \* per worker: wrapper's current_delay (milliseconds)
    last_exception,  \* per worker: wrapper's last_exception
    calls,           \* per worker: how often func was called in this execution
    retryableFailed, \* per worker: attempts of this execution that raised a retryable error
    otherFailed,     \* per worker: attempts of this execution that raised another error
    slept,           \* per worker: the delays of the time.sleep calls of this execution
    raised,          \* per worker: the exception _execute_sync raised (kept until the next call)
    surfaced,        \* per worker: the kind of error execute_query raised
    where,           \* the filter the caller builds and passes to translate_where
    stack,           \* the enclosing dicts of the dict the caller is filling
    weight,          \* the items and list elements of the filter so far
    where_sql,       \* translate_where: the returned SQL (a token sequence)
    params,          \* translate_where: the returned parameter map
    translated,      \* translate_where has returned
    key,             \* _build_field_condition: the leaf key passed in
    keyparts,        \* the underscore-free parts the caller joined into the key
    field_name,      \* _build_field_condition: local field_name
    operator,        \* _build_field_condition: local operator
    parsed,          \* the field/operator split has run
    param_counter,   \* the translator object's field self.param_counter
    callPc,          \* per concurrent caller: where it is in translate_where
    callWhere,       \* per concurrent caller: the filter it passed
    callPos,         \* per concurrent caller: the item its loop is at
    callCtx,         \* per concurrent caller: its local context (conditions, params)
    callResult,      \* per concurrent caller: what translate_where returned
    stmt_sql,        \* the SQL text handed to _execute_sync (a character sequence)
    stmt_params,     \* the params dict handed to _execute_sync
    stmt_used,       \* for each parameter, whether the SQL text refers to it
    sub_pc,          \* execute_with_retry: "building", "substituting" or "executed"
    sub_i,           \* execute_with_retry: the loop variable i
    sql_with_params, \* execute_with_retry: local sql_with_params
    param_values,    \* execute_with_retry: local param_values
    q_pc,            \* execute_query: "idle", "running" or "raised"
    q_context,       \* execute_query: the context argument
    q_correlation_id,\* execute_query: local correlation_id (also in its log entries)
    q_raw,           \* the exception _execute_sync raised
    q_error,         \* the error execute_query raised
    raw_text,        \* the text of the engine error being prepared
    next_uuid,       \* the uuid4() values handed out so far
    translate_raised,\* translate_where ended with an exception
    h_pc,            \* aggregate_resolver: "where", "having" or "built"
    h_where,         \* aggregate_resolver: the where filter (a dict)
    h_having,        \* aggregate_resolver: the fields of the having input that are set
    h_params,        \* aggregate_resolver: local params
    h_conditions,    \* aggregate_resolver: local having_conditions
    r_pc,            \* aggregate_resolver: "query", "fetched" or "reshaped"
    r_group_by,      \* aggregate_resolver: argument group_by
    r_functions,     \* aggregate_resolver: the aliases of argument functions
    r_row,           \* one row of result.rows (a dict)
    r_instance,      \* full_instance_data built for that row
    s_pc,            \* per execute_query call: "idle", "running" or "done"
    s_context,       \* per call: the context argument ("None", "empty" or "given")
    s_query_metrics, \* per call: local query_metrics is not None
    s_outcome,       \* per call: what the call returned or raised
    s_reports,       \* per call: the complete_query calls the collector received for it
    query_count,     \* QueryExecutor._query_count
    total_query_time,\* QueryExecutor._total_query_time (milliseconds)
    s_completed,     \* the durations of the calls that succeeded since the last reset_stats
    s_stats,         \* what the last get_stats() returned
    w_policy,        \* with_retry: max_retries, delay, backoff
    w_outcomes,      \* what the successive calls of func do: return, or raise an error
    w_sync,          \* what wrapper did with these outcomes
    w_async,         \* what async_wrapper did with these outcomes
    copy_pc,         \* _copy_schema_to_pool: "start", "loop", "tables" or "done"
    copy_i,          \* _copy_schema_to_pool: the cycles of the loop over the pool so far
    copy_conn,       \* _copy_schema_to_pool: local conn (a set, empty = none)
    copy_tables,     \* _copy_schema_to_pool: local tables
    copy_table,      \* _copy_schema_to_pool: the position of the inner loop in tables
    copy_made,       \* for each pooled connection and table, what the copy left there
    copy_visited,    \* the connections the loop acquired, in order
    cancelled,       \* per worker: the attempt at which the awaiting caller was cancelled (-1: not)
    closing,         \* QueryExecutor.close: "open", "shutdown", "close_all" or "closed"
    close_calls      \* how often close() was called

execVars == <<max_retries, pool, closed, borrowed, pc, conn, attempt,
              current_delay, last_exception, calls, retryableFailed, otherFailed,
              slept, raised, surfaced>>
\* the executor's variables beside the pool's queue and its closed connections
execBesidePool == <<max_retries, borrowed, pc, conn, attempt, current_delay, last_exception,
                    calls, retryableFailed, otherFailed, slept, raised, surfaced>>
filterVars == <<where, stack, weight, where_sql, params, translated>>
keyVars == <<key, keyparts, field_name, operator, parsed>>
subVars == <<stmt_sql, stmt_params, stmt_used, sub_pc, sub_i, sql_with_params, param_values>>
errVars == <<q_pc, q_context, q_correlation_id, q_raw, q_error, raw_text, next_uuid>>
totalVars == <<translate_raised>>
havingVars == <<h_pc, h_where, h_having, h_params, h_conditions>>
reshapeVars == <<r_pc, r_group_by, r_functions, r_row, r_instance>>
statsVars == <<s_pc, s_context, s_query_metrics, s_outcome, s_reports,
               query_count, total_query_time, s_completed, s_stats>>
retryVars == <<w_policy, w_outcomes, w_sync, w_async>>
copyVars == <<copy_pc, copy_i, copy_conn, copy_tables, copy_table, copy_made, copy_visited>>
lifeVars == <<cancelled, closing, close_calls>>
callVars == <<param_counter, callPc, callWhere, callPos, callCtx, callResult>>
vars == <<execVars, filterVars, keyVars, callVars, subVars, errVars, totalVars, havingVars, reshapeVars, statsVars, retryVars, copyVars, lifeVars>>

\* what the steps of one component leave alone: the state of the others
outsideExec == <<filterVars, keyVars, callVars, subVars, errVars, totalVars,
        havingVars, reshapeVars, statsVars, retryVars, copyVars, lifeVars>>
outsideFilter == <<execVars, keyVars, callVars, subVars, errVars, totalVars,
        havingVars, reshapeVars, statsVars, retryVars, copyVars, lifeVars>>
outsideKey == <<execVars, filterVars, callVars, subVars, errVars, totalVars,
        havingVars, reshapeVars, statsVars, retryVars, copyVars, lifeVars>>
outsideCall == <<execVars, filterVars, keyVars, subVars, errVars, totalVars,
        havingVars, reshapeVars, statsVars, retryVars, copyVars, lifeVars>>
outsideSub == <<execVars, filterVars, keyVars, callVars, errVars, totalVars,
        havingVars, reshapeVars, statsVars, retryVars, copyVars, lifeVars>>
outsideErr == <<execVars, filterVars, keyVars, callVars, subVars, totalVars,
        havingVars, reshapeVars, statsVars, retryVars, copyVars, lifeVars>>
outsideTotal == <<execVars, filterVars, keyVars, callVars, subVars, errVars,
        havingVars, reshapeVars, statsVars, retryVars, copyVars, lifeVars>>
outsideHaving == <<execVars, filterVars, keyVars, callVars, subVars, errVars,
        totalVars, reshapeVars, statsVars, retryVars, copyVars, lifeVars>>
outsideReshape == <<execVars, filterVars, keyVars, callVars, subVars, errVars,
        totalVars, havingVars, statsVars, retryVars, copyVars, lifeVars>>
outsideStats == <<execVars, filterVars, keyVars, callVars, subVars, errVars,
        totalVars, havingVars, reshapeVars, retryVars, copyVars, lifeVars>>
outsideRetry == <<execVars, filterVars, keyVars, callVars, subVars, errVars,
        totalVars, havingVars, reshapeVars, statsVars, copyVars, lifeVars>>
outsideCopy == <<execVars, filterVars, keyVars, callVars, subVars, errVars,
        totalVars, havingVars, reshapeVars, statsVars, retryVars, lifeVars>>
outsideLife == <<execVars, filterVars, keyVars, callVars, subVars, errVars,
        totalVars, havingVars, reshapeVars, statsVars, retryVars, copyVars>>
outsideExecAndCopy == <<filterVars, keyVars, callVars, subVars, errVars,
        totalVars, havingVars, reshapeVars, statsVars, retryVars, lifeVars>>
outsideExecAndLife == <<filterVars, keyVars, callVars, subVars, errVars,
        totalVars, havingVars, reshapeVars, statsVars, retryVars, copyVars>>

(***************************************************************************)
(* Bounds of the model.                                                    *)
(***************************************************************************)
MaxWorkers == 2          \* max_workers: worker threads = pooled connections
MaxRetriesBound == 2     \* max_retries ranges over 0..MaxRetriesBound
MaxWeight == 3           \* filters have at most this many items and list elements
MaxStack == 2            \* at most this many dicts are open around the one being filled
MaxKeyParts == 3         \* leaf keys have at most this many underscore-separated parts
MaxParams == 11          \* a statement has at most this many parameters
MaxPhrases == 2           \* the text of an engine error has at most this many phrases
MaxHaving == 2            \* at most this many fields of the having input are set
MaxGroupBy == 2           \* at most this many group-by columns
MaxFunctions == 2         \* at most this many functions given by the caller
MaxQueries == 3           \* at most this many successful executions between two resets
MaxTables == 2            \* the origin has this many tables
MaxCloses == 2            \* close() is called at most this often
MaxCallItems == 2        \* a concurrently translated filter has at most this many items

(***************************************************************************)
(* Program constants.                                                      *)
(***************************************************************************)
retry_delay == 100       \* retry_delay = 0.1 s, in milliseconds
retry_backoff == 2       \* retry_backoff = 2.0

Workers == 1..MaxWorkers
Conns == 1..MaxWorkers
Borrowers == {"direct"}

(***************************************************************************)
(* Errors: the exception's type and the text its message contains.         *)
(***************************************************************************)
NoError == [type |-> "None", text |-> <<>>]
\* RuntimeError("Unable to get database connection from pool")
PoolTimeoutError == [type |-> "RuntimeError",
                     text |-> <<"Unable to get database connection from pool">>]
\* what conn.execute / fetchall raise in this model
EngineErrors ==
    { [type |-> "ConnectionException", text |-> <<"Connection failed">>],
      [type |-> "InvalidInputException", text |-> <<"Invalid SQL syntax">>] }

DEFAULT_RETRYABLE_ERRORS == {"ConnectionException", "IOException", "RuntimeError"}

\* the classes e is an instance of (its own class and its base classes)
Mro(e) ==
    CASE e.type = "ConnectionException" -> {"ConnectionException", "Error", "Exception"}
      [] e.type = "IOException" -> {"IOException", "OperationalError", "Error", "Exception"}
      [] e.type = "InvalidInputException" -> {"InvalidInputException", "ProgrammingError", "Error", "Exception"}
      [] e.type = "RuntimeError" -> {"RuntimeError", "Exception"}
      [] OTHER -> {e.type, "Exception"}

\* any(isinstance(e, error_type) for error_type in retryable_errors)
IsRetryable(e) == Mro(e) \cap DEFAULT_RETRYABLE_ERRORS # {}


\* phrase in str(original_error)
InMessage(phrase, e) == \E i \in 1..Len(e.text) : e.text[i] = phrase

\* the branch of enhance_duckdb_error an exception takes
Branch(e) ==
    IF InMessage("Could not find column", e) THEN "column"
    ELSE IF InMessage("Cannot compare values of type", e) \/ InMessage("Type mismatch", e)
        THEN "type"
    ELSE IF InMessage("Parser Error", e) \/ InMessage("Syntax error", e) THEN "syntax"
    ELSE IF e.type \in {"ConnectionException", "IOException"} THEN "connection"
    ELSE IF InMessage("Catalog Error", e) THEN "catalog"
    ELSE "generic"

\* the class each branch instantiates
ErrorClass(branch) ==
    CASE branch = "column" -> "SchemaError"
      [] branch = "type" -> "FilterError"
      [] branch = "syntax" -> "QueryError"
      [] branch = "connection" -> "ConnectionError"
      [] branch = "catalog" -> "SchemaError"
      [] OTHER -> "QueryError"

\* the class of the error enhance_duckdb_error returns
enhance_duckdb_error(e) == ErrorClass(Branch(e))

(***************************************************************************)
(* ConnectionPool.                                                         *)
(***************************************************************************)
\* ConnectionPool.__init__: max_connections connections are created and queued
PoolInit == [i \in Conns |-> i]

\* the returned connection is put at the head of the queue
return_connection_Front(q, cl, c) == [pool |-> <<c>> \o q, closed |-> cl]

\* the returned connection is not queued again
return_connection_Drop(q, cl, c) == [pool |-> q, closed |-> cl]

\* ConnectionPool.return_connection: put(block=False); a full queue closes conn
return_connection(q, cl, c) ==
    IF Len(q) < MaxWorkers
    THEN [pool |-> Append(q, c), closed |-> cl]
    ELSE [pool |-> q, closed |-> cl \cup {c}]

(***************************************************************************)
(* The executor.                                                           *)
(***************************************************************************)
\* QueryExecutor.__init__ with max_retries = r
InitExec(r) ==
    /\ max_retries = r
    /\ pool = PoolInit
    /\ closed = {}
    /\ borrowed = [b \in Borrowers |-> {}]
    /\ pc = [w \in Workers |-> "idle"]
    /\ conn = [w \in Workers |-> {}]
    /\ attempt = [w \in Workers |-> 0]
    /\ current_delay = [w \in Workers |-> retry_delay]
    /\ last_exception = [w \in Workers |-> NoError]
    /\ calls = [w \in Workers |-> 0]
    /\ retryableFailed = [w \in Workers |-> 0]
    /\ otherFailed = [w \in Workers |-> 0]
    /\ slept = [w \in Workers |-> <<>>]
    /\ raised = [w \in Workers |-> NoError]
    /\ surfaced = [w \in Workers |-> "None"]

\* execute_query hands _execute_sync to a free worker thread; the wrapper starts
Dispatch(w) ==
    /\ pc[w] = "idle"
    /\ pc' = [pc EXCEPT ![w] = "attempt"]
    /\ surfaced' = [surfaced EXCEPT ![w] = "None"]
    /\ raised' = [raised EXCEPT ![w] = NoError]
    /\ UNCHANGED outsideExec
    /\ UNCHANGED <<max_retries, pool, closed, borrowed, conn, attempt,
                   current_delay, last_exception, calls, retryableFailed, otherFailed,
                   slept>>

\* the loop bound taken one too far
AfterFailure_OneMore(w, e) ==
    IF ~IsRetryable(e) THEN "raised"
    ELSE IF attempt[w] <= max_retries THEN "sleep"
    ELSE "raised"

\* the retryable check left out
AfterFailure_RetryAll(w, e) ==
    IF attempt[w] < max_retries THEN "sleep" ELSE "raised"

\* where the wrapper goes when this attempt raised e
AfterFailure(w, e) ==
    IF ~IsRetryable(e) THEN "raised"
    ELSE IF attempt[w] < max_retries THEN "sleep"
    ELSE "raised"

\* the wrapper's except clause for an attempt of worker w that raised e
Except(w, e) ==
    /\ last_exception' = [last_exception EXCEPT ![w] = e]
    /\ retryableFailed' = [retryableFailed EXCEPT
            ![w] = IF IsRetryable(e) THEN @ + 1 ELSE @]
    /\ otherFailed' = [otherFailed EXCEPT ![w] = IF IsRetryable(e) THEN @ ELSE @ + 1]
    /\ pc' = [pc EXCEPT ![w] = AfterFailure(w, e)]
    /\ raised' = [raised EXCEPT ![w] = IF AfterFailure(w, e) = "raised" THEN e ELSE @]

\* get_connection reads the queue's head and leaves it queued
GetConnection_Peek(w) ==
    /\ pc[w] = "attempt"
    /\ pool # <<>>
    /\ calls' = [calls EXCEPT ![w] = @ + 1]
    /\ conn' = [conn EXCEPT ![w] = {Head(pool)}]
    /\ pc' = [pc EXCEPT ![w] = "execute"]
    /\ UNCHANGED outsideExec
    /\ UNCHANGED <<max_retries, pool, closed, borrowed, attempt, current_delay,
                   last_exception, retryableFailed, otherFailed, slept, raised, surfaced>>

\* an attempt starts: func is called and get_connection takes the queue's head
GetConnection(w) ==
    /\ pc[w] = "attempt"
    /\ pool # <<>>
    /\ calls' = [calls EXCEPT ![w] = @ + 1]
    /\ conn' = [conn EXCEPT ![w] = {Head(pool)}]
    /\ pool' = Tail(pool)
    /\ pc' = [pc EXCEPT ![w] = "execute"]
    /\ UNCHANGED outsideExec
    /\ UNCHANGED <<max_retries, closed, borrowed, attempt, current_delay,
                   last_exception, retryableFailed, otherFailed, slept, raised, surfaced>>

\* an attempt starts and the queue stays empty for the whole timeout
GetConnectionTimeout(w) ==
    /\ pc[w] = "attempt"
    /\ pool = <<>>
    /\ calls' = [calls EXCEPT ![w] = @ + 1]
    /\ Except(w, PoolTimeoutError)
    /\ UNCHANGED outsideExec
    /\ UNCHANGED <<max_retries, pool, closed, borrowed, conn, attempt,
                   current_delay, slept, surfaced>>

\* the statement runs and its rows are fetched; finally returns the connection
ExecuteOk(w) ==
    /\ pc[w] = "execute"
    /\ \E c \in conn[w] :
          /\ pool' = return_connection(pool, closed, c).pool
          /\ closed' = return_connection(pool, closed, c).closed
    /\ conn' = [conn EXCEPT ![w] = {}]
    /\ pc' = [pc EXCEPT ![w] = "returned"]
    /\ UNCHANGED outsideExec
    /\ UNCHANGED <<max_retries, borrowed, attempt, current_delay,
                   last_exception, calls, retryableFailed, otherFailed, slept, raised,
                   surfaced>>

\* the connection is returned on the success path only
ExecuteFail_NoFinally(w, e) ==
    /\ pc[w] = "execute"
    /\ Except(w, e)
    /\ UNCHANGED outsideExec
    /\ UNCHANGED <<max_retries, pool, closed, borrowed, conn, attempt, current_delay,
                   calls, slept, surfaced>>

\* the statement raises e; finally returns the connection; the wrapper catches e
ExecuteFail(w, e) ==
    /\ pc[w] = "execute"
    /\ \E c \in conn[w] :
          /\ pool' = return_connection(pool, closed, c).pool
          /\ closed' = return_connection(pool, closed, c).closed
    /\ conn' = [conn EXCEPT ![w] = {}]
    /\ Except(w, e)
    /\ UNCHANGED outsideExec
    /\ UNCHANGED <<max_retries, borrowed, attempt, current_delay, calls,
                   slept, surfaced>>

\* the delay is not multiplied
Sleep_ConstantDelay(w) ==
    /\ pc[w] = "sleep"
    /\ slept' = [slept EXCEPT ![w] = Append(@, current_delay[w])]
    /\ attempt' = [attempt EXCEPT ![w] = @ + 1]
    /\ pc' = [pc EXCEPT ![w] = "attempt"]
    /\ UNCHANGED outsideExec
    /\ UNCHANGED <<max_retries, pool, closed, borrowed, conn, last_exception,
                   calls, retryableFailed, otherFailed, raised, surfaced, current_delay>>

\* time.sleep(current_delay) ends; current_delay *= backoff; the loop goes on
Sleep(w) ==
    /\ pc[w] = "sleep"
    /\ slept' = [slept EXCEPT ![w] = Append(@, current_delay[w])]
    /\ current_delay' = [current_delay EXCEPT ![w] = @ * retry_backoff]
    /\ attempt' = [attempt EXCEPT ![w] = @ + 1]
    /\ pc' = [pc EXCEPT ![w] = "attempt"]
    /\ UNCHANGED outsideExec
    /\ UNCHANGED <<max_retries, pool, closed, borrowed, conn, last_exception,
                   calls, retryableFailed, otherFailed, raised, surfaced>>

\* _execute_sync has returned or raised and its locals are gone; execute_query
\* resumes and returns the result or raises the enhanced error
Complete(w) ==
    /\ pc[w] \in {"returned", "raised"}
    /\ surfaced' = [surfaced EXCEPT
            ![w] = IF pc[w] = "raised" THEN enhance_duckdb_error(raised[w]) ELSE "None"]
    /\ pc' = [pc EXCEPT ![w] = "idle"]
    /\ attempt' = [attempt EXCEPT ![w] = 0]
    /\ current_delay' = [current_delay EXCEPT ![w] = retry_delay]
    /\ last_exception' = [last_exception EXCEPT ![w] = NoError]
    /\ calls' = [calls EXCEPT ![w] = 0]
    /\ retryableFailed' = [retryableFailed EXCEPT ![w] = 0]
    /\ otherFailed' = [otherFailed EXCEPT ![w] = 0]
    /\ slept' = [slept EXCEPT ![w] = <<>>]
    /\ UNCHANGED outsideExec
    /\ UNCHANGED <<max_retries, pool, closed, borrowed, conn, raised>>

\* code outside the executor calls ConnectionPool.get_connection
PoolGet(b) ==
    /\ pool # <<>>
    /\ borrowed' = [borrowed EXCEPT ![b] = @ \cup {Head(pool)}]
    /\ pool' = Tail(pool)
    /\ UNCHANGED outsideExec
    /\ UNCHANGED <<max_retries, closed, pc, conn, attempt, current_delay, last_exception,
                   calls, retryableFailed, otherFailed, slept, raised, surfaced>>

\* it calls ConnectionPool.return_connection with a connection it holds
PoolReturn(b) ==
    /\ \E c \in borrowed[b] :
          /\ pool' = return_connection(pool, closed, c).pool
          /\ closed' = return_connection(pool, closed, c).closed
          /\ borrowed' = [borrowed EXCEPT ![b] = @ \ {c}]
    /\ UNCHANGED outsideExec
    /\ UNCHANGED <<max_retries, pc, conn, attempt, current_delay,
                   last_exception, calls, retryableFailed, otherFailed, slept, raised,
                   surfaced>>

(***************************************************************************)
(* Strings are sequences of characters; SQL text is a sequence of tokens.  *)
(***************************************************************************)
RECURSIVE split(_, _)
\* s.split(sep) for a one-character sep
split(s, sep) ==
    IF \A i \in 1..Len(s) : s[i] # sep THEN <<s>>
    ELSE LET i == CHOOSE i \in 1..Len(s) : s[i] = sep /\ \A j \in 1..(i - 1) : s[j] # sep
         IN <<SubSeq(s, 1, i - 1)>> \o split(SubSeq(s, i + 1, Len(s)), sep)

RECURSIVE join(_, _)
\* sep.join(parts)
join(sep, parts) ==
    IF parts = <<>> THEN <<>>
    ELSE IF Len(parts) = 1 THEN parts[1]
    ELSE parts[1] \o sep \o join(sep, Tail(parts))

S_and == <<"_", "a", "n", "d">>
S_or == <<"_", "o", "r">>
S_not == <<"_", "n", "o", "t">>
S_not_in == <<"n", "o", "t", "_", "i", "n">>
S_eq == <<"e", "q">>
S_ne == <<"n", "e">>
S_gt == <<"g", "t">>
S_gte == <<"g", "t", "e">>
S_lt == <<"l", "t">>
S_lte == <<"l", "t", "e">>
S_like == <<"l", "i", "k", "e">>
S_ilike == <<"i", "l", "i", "k", "e">>
S_in == <<"i", "n">>

\* the list of single-token operator suffixes of _build_field_condition
SuffixOperators == {S_eq, S_ne, S_gt, S_gte, S_lt, S_lte, S_like, S_ilike, S_in}

\* parts[-n:] and parts[:-n]
LastParts(parts, n) == SubSeq(parts, Len(parts) - n + 1, Len(parts))
ButLastParts(parts, n) == SubSeq(parts, 1, Len(parts) - n)

\* the single-token suffixes tried before not_in
ParseKey_SingleFirst(k) ==
    LET parts == split(k, "_")
    IN IF Len(parts) > 1
       THEN IF parts[Len(parts)] \in SuffixOperators
            THEN [field_name |-> join(<<"_">>, ButLastParts(parts, 1)),
                  operator |-> parts[Len(parts)]]
            ELSE [field_name |-> k, operator |-> S_eq]
       ELSE [field_name |-> k, operator |-> S_eq]

\* _build_field_condition: the split of a leaf key into field_name and operator
ParseKey(k) ==
    LET parts == split(k, "_")
    IN IF Len(parts) > 1
       THEN IF Len(parts) >= 2 /\ join(<<"_">>, LastParts(parts, 2)) = S_not_in
            THEN [field_name |-> join(<<"_">>, ButLastParts(parts, 2)),
                  operator |-> S_not_in]
            ELSE IF parts[Len(parts)] \in SuffixOperators
                 THEN [field_name |-> join(<<"_">>, ButLastParts(parts, 1)),
                       operator |-> parts[Len(parts)]]
                 ELSE [field_name |-> k, operator |-> S_eq]
       ELSE [field_name |-> k, operator |-> S_eq]

\* SQL tokens
Tok(t) == [tok |-> t, name |-> <<>>, n |-> 0]
Ident(f) == [tok |-> "ident", name |-> f, n |-> 0]      \* "<field>"
Placeholder(i) == [tok |-> "$p", name |-> <<>>, n |-> i]  \* $p<i>

\* the SQL comparison an operator compiles to when its value is not a list
ScalarOp(op) ==
    CASE op = S_eq -> "="
      [] op = S_ne -> "!="
      [] op = S_gt -> ">"
      [] op = S_gte -> ">="
      [] op = S_lt -> "<"
      [] op = S_lte -> "<="
      [] op = S_like -> "LIKE"
      [] op = S_ilike -> "ILIKE"
      [] op = S_in -> "="
      [] op = S_not_in -> "!="
      [] OTHER -> "="

(***************************************************************************)
(* Filters. A dict is the sequence of its items in insertion order; an     *)
(* item is [key, vkind, val, elems, subs] with vkind the kind of its value:*)
(* "null", "scalar" (val), "list" (elems), "filters" (subs, a list of      *)
(* dicts) or "filter" (subs[1], one dict).                                 *)
(***************************************************************************)
ValueOf(e) == [vkind |-> e.vkind, val |-> e.val, elems |-> e.elems]
ScalarValue(v) == [vkind |-> "scalar", val |-> v, elems |-> <<>>]

\* d[name] = value on the ordered dict d
DictSet(d, name, value) ==
    IF \E i \in 1..Len(d) : d[i].name = name
    THEN [i \in 1..Len(d) |-> IF d[i].name = name THEN [name |-> name, value |-> value]
                                ELSE d[i]]
    ELSE Append(d, [name |-> name, value |-> value])

\* param_name = f"p{self.param_counter}"; self.param_counter += 1;
\* context.params[param_name] = value
AllocParam(st, value) ==
    [st EXCEPT !.counter = @ + 1, !.params = DictSet(@, st.counter, value)]

RECURSIVE AllocElems(_, _)
\* the loop over a list value: one parameter for each element
AllocElems(st, elems) ==
    IF elems = <<>> THEN st
    ELSE AllocElems(AllocParam(st, ScalarValue(Head(elems))), Tail(elems))

\* ', '.join(placeholders) for the placeholders first..first+n-1
Placeholders(first, n) ==
    join(<<Tok(",")>>, [i \in 1..n |-> <<Placeholder(first + i - 1)>>])

\* the value of a scalar leaf written into the SQL text
FieldCondition_ValueInText(e, param, first) ==
    LET p == ParseKey(e.key)
    IN IF p.operator \in {S_in, S_not_in} /\ e.vkind = "list"
       THEN <<Ident(p.field_name), Tok(IF p.operator = S_in THEN "IN" ELSE "NOT IN"),
              Tok("(")>> \o Placeholders(first, Len(e.elems)) \o <<Tok(")")>>
       ELSE <<Ident(p.field_name), Tok(ScalarOp(p.operator)),
              [tok |-> "literal", name |-> <<>>, n |-> e.val]>>

\* the condition _build_field_condition appends for a non-null value
FieldCondition(e, param, first) ==
    LET p == ParseKey(e.key)
    IN IF p.operator \in {S_in, S_not_in} /\ e.vkind = "list"
       THEN <<Ident(p.field_name), Tok(IF p.operator = S_in THEN "IN" ELSE "NOT IN"),
              Tok("(")>> \o Placeholders(first, Len(e.elems)) \o <<Tok(")")>>
       ELSE <<Ident(p.field_name), Tok(ScalarOp(p.operator)), Placeholder(param)>>

\* the early return for a null value left out
BuildFieldCondition_NullAsValue(e, st) ==
    LET st1 == AllocParam(st, ValueOf(e))
        isList == ParseKey(e.key).operator \in {S_in, S_not_in} /\ e.vkind = "list"
        st2 == IF isList THEN AllocElems(st1, e.elems) ELSE st1
    IN [st2 EXCEPT !.conds = Append(@, FieldCondition(e, st.counter, st1.counter))]

\* _build_field_condition(key, value, context)
BuildFieldCondition(e, st) ==
    IF e.vkind = "null" THEN st
    ELSE LET st1 == AllocParam(st, ValueOf(e))
             isList == ParseKey(e.key).operator \in {S_in, S_not_in} /\ e.vkind = "list"
             st2 == IF isList THEN AllocElems(st1, e.elems) ELSE st1
         IN [st2 EXCEPT !.conds = Append(@, FieldCondition(e, st.counter, st1.counter))]

Paren(c) == <<Tok("(")>> \o c \o <<Tok(")")>>

\* each sub_context numbers its parameters from p0 again
SubContext_OwnCounter(st) == [st EXCEPT !.conds = <<>>, !.counter = 0]

\* a fresh sub_context that shares params (and the translator's counter)
SubContext(st) == [st EXCEPT !.conds = <<>>]

\* iterating / calling .items() on a value of the wrong kind raises
BadCombinatorValue(e) ==
    IF e.key \in {S_and, S_or}
    THEN \/ e.vkind \in {"null", "scalar"}
         \/ e.vkind = "list" /\ e.elems # <<>>
         \/ e.vkind = "filter" /\ e.subs[1] # <<>>
    ELSE e.vkind # "filter"

RECURSIVE BuildWhereConditions(_, _)
RECURSIVE BuildSubFilters(_, _)
RECURSIVE BuildSubFilters_KeepEmpty(_, _)
RECURSIVE BuildItem(_, _)

\* the result of a sub-filter kept also when it produced no condition
BuildSubFilters_KeepEmpty(subs, acc) ==
    IF subs = <<>> \/ acc.error THEN acc
    ELSE LET r == BuildWhereConditions(Head(subs), SubContext(acc))
         IN BuildSubFilters_KeepEmpty(Tail(subs),
                [r EXCEPT !.conds = Append(acc.conds, Paren(join(<<Tok("AND")>>, r.conds)))])

\* _build_where_conditions(where, context): the loop over where.items()
BuildWhereConditions(w, st) ==
    IF w = <<>> \/ st.error THEN st
    ELSE BuildWhereConditions(Tail(w), BuildItem(Head(w), st))

\* the loop over the sub-filters of _and / _or; acc.conds collects the
\* parenthesised results of the sub-filters that produced conditions
BuildSubFilters(subs, acc) ==
    IF subs = <<>> \/ acc.error THEN acc
    ELSE LET r == BuildWhereConditions(Head(subs), SubContext(acc))
         IN BuildSubFilters(Tail(subs),
                [r EXCEPT !.conds = IF r.conds # <<>>
                                    THEN Append(acc.conds, Paren(join(<<Tok("AND")>>, r.conds)))
                                    ELSE acc.conds])

\* one iteration of the loop of _build_where_conditions
BuildItem(e, st) ==
    IF e.key \in {S_and, S_or, S_not} /\ BadCombinatorValue(e)
    THEN [st EXCEPT !.error = TRUE]
    ELSE IF e.key \in {S_and, S_or}
    THEN LET r == BuildSubFilters(IF e.vkind = "filters" THEN e.subs ELSE <<>>,
                                  SubContext(st))
             joiner == IF e.key = S_and THEN "AND" ELSE "OR"
         IN [r EXCEPT !.conds = IF r.conds # <<>>
                                THEN Append(st.conds, Paren(join(<<Tok(joiner)>>, r.conds)))
                                ELSE st.conds]
    ELSE IF e.key = S_not
    THEN LET r == BuildWhereConditions(e.subs[1], SubContext(st))
         IN [r EXCEPT !.conds = IF r.conds # <<>>
                                THEN Append(st.conds, <<Tok("NOT")>>
                                        \o Paren(join(<<Tok("AND")>>, r.conds)))
                                ELSE st.conds]
    ELSE BuildFieldCondition(e, st)

\* translate_where(where): (where_sql, params), or the exception
translate_where(w) ==
    LET r == BuildWhereConditions(w, [counter |-> 0, params |-> <<>>, conds |-> <<>>,
                                      error |-> FALSE])
    IN [sql |-> join(<<Tok("AND")>>, r.conds), params |-> r.params, error |-> r.error]

(***************************************************************************)
(* The caller's filter. It is built item by item: stack holds the dicts    *)
(* whose next item is being built, where the dict being filled. weight     *)
(* counts the items and list elements built so far.                        *)
(***************************************************************************)
LeafItem(k, vkind, v, elems) ==
    [key |-> k, vkind |-> vkind, val |-> v, elems |-> elems, subs |-> <<>>]
CombinatorItem(k, subs) ==
    [key |-> k, vkind |-> "filters", val |-> 0, elems |-> <<>>, subs |-> subs]
NotItem(f) ==
    [key |-> S_not, vkind |-> "filter", val |-> 0, elems |-> <<>>, subs |-> <<f>>]

HasKey(f, k) == \E i \in 1..Len(f) : f[i].key = k

K_a == <<"a">>
K_b_in == <<"b">> \o <<"_">> \o S_in
K_c_not_in == <<"c">> \o <<"_">> \o S_not_in

\* the leaf items of n list elements a caller writes
LeafItems(n) ==
    (IF n = 0 THEN {LeafItem(K_a, "null", 0, <<>>), LeafItem(K_a, "scalar", 9, <<>>),
                    LeafItem(K_c_not_in, "null", 0, <<>>)}
     ELSE {})
    \cup {LeafItem(K_b_in, "list", 0, [i \in 1..n |-> i]),
          LeafItem(K_c_not_in, "list", 0, [i \in 1..n |-> i])}

InitFilter ==
    /\ where = <<>>
    /\ stack = <<>>
    /\ weight = 0
    /\ where_sql = <<>>
    /\ params = <<>>
    /\ translated = FALSE

\* the caller writes  key: value  into the dict being filled
AddLeaf ==
    /\ ~translated
    /\ \E n \in 0..(MaxWeight - weight - 1) : \E e \in LeafItems(n) :
          /\ ~HasKey(where, e.key)
          /\ where' = Append(where, e)
          /\ weight' = weight + 1 + n
    /\ UNCHANGED <<stack, where_sql, params, translated, outsideFilter>>

\* the caller opens a nested dict
OpenDict ==
    /\ ~translated
    /\ Len(stack) < MaxStack
    /\ stack' = Append(stack, where)
    /\ where' = <<>>
    /\ UNCHANGED <<weight, where_sql, params, translated, outsideFilter>>

\* the caller closes  _and: [...]  or  _or: [...]  over the last j dicts
CloseCombinator ==
    /\ ~translated
    /\ weight < MaxWeight
    /\ \E k \in {S_and, S_or} : \E j \in 0..Len(stack) :
          LET all == Append(stack, where)
              parent == all[Len(all) - j]
          IN /\ ~HasKey(parent, k)
             /\ where' = Append(parent, CombinatorItem(k, LastParts(all, j)))
             /\ stack' = SubSeq(stack, 1, Len(stack) - j)
    /\ weight' = weight + 1
    /\ UNCHANGED <<where_sql, params, translated, outsideFilter>>

\* the caller closes  _not: {...}  over the dict being filled
CloseNot ==
    /\ ~translated
    /\ weight < MaxWeight
    /\ stack # <<>>
    /\ ~HasKey(stack[Len(stack)], S_not)
    /\ where' = Append(stack[Len(stack)], NotItem(where))
    /\ stack' = SubSeq(stack, 1, Len(stack) - 1)
    /\ weight' = weight + 1
    /\ UNCHANGED <<where_sql, params, translated, outsideFilter>>

\* the caller passes the finished filter to translate_where
TranslateWhere ==
    /\ ~translated
    /\ stack = <<>>
    /\ ~translate_where(where).error
    /\ where_sql' = translate_where(where).sql
    /\ params' = translate_where(where).params
    /\ translated' = TRUE
    /\ UNCHANGED <<where, stack, weight, outsideFilter>>

(***************************************************************************)
(* The leaf key, built of up to MaxKeyParts parts joined by underscores.   *)
(***************************************************************************)
KeyParts == SuffixOperators \cup { <<>>, <<"a">>, <<"n", "o", "t">>, <<"m", "i", "n">> }

InitKey ==
    /\ key = <<>>
    /\ keyparts = <<>>
    /\ field_name = <<>>
    /\ operator = <<>>
    /\ parsed = FALSE

\* the caller writes the next part of the key
AddKeyPart ==
    /\ ~parsed
    /\ Len(keyparts) < MaxKeyParts
    /\ \E q \in KeyParts :
          /\ key' = IF keyparts = <<>> THEN q ELSE key \o <<"_">> \o q
          /\ keyparts' = Append(keyparts, q)
    /\ UNCHANGED <<field_name, operator, parsed, outsideKey>>

\* _build_field_condition splits the key of a non-null leaf
SplitKey ==
    /\ ~parsed
    /\ keyparts # <<>>
    /\ field_name' = ParseKey(key).field_name
    /\ operator' = ParseKey(key).operator
    /\ parsed' = TRUE
    /\ UNCHANGED <<key, keyparts, outsideKey>>

(***************************************************************************)
(* Two callers in translate_where on the same translator object. The       *)
(* context of a call is local to it; self.param_counter is a field of the  *)
(* object. A caller runs one iteration of the loop of                      *)
(* _build_where_conditions at a time, and the other caller may run between *)
(* two iterations.                                                         *)
(***************************************************************************)
Callers == 1..2

NoContext == [counter |-> 0, params |-> <<>>, conds |-> <<>>, error |-> FALSE]
NoResult == [sql |-> <<>>, params |-> <<>>]

\* the filters the concurrent callers pass: non-null leaves with distinct keys
CallItems == { LeafItem(K_a, "scalar", 9, <<>>), LeafItem(K_b_in, "list", 0, <<1>>),
               LeafItem(K_c_not_in, "scalar", 7, <<>>) }
CallFilters ==
    { f \in UNION { [1..n -> CallItems] : n \in 1..MaxCallItems } :
        \A i, j \in 1..Len(f) : i # j => f[i].key # f[j].key }

InitCall ==
    /\ param_counter = 0
    /\ callPc = [c \in Callers |-> "idle"]
    /\ callWhere = [c \in Callers |-> <<>>]
    /\ callPos = [c \in Callers |-> 1]
    /\ callCtx = [c \in Callers |-> NoContext]
    /\ callResult = [c \in Callers |-> NoResult]

\* translate_where up to the call of _build_where_conditions
BeginTranslate(c) ==
    /\ callPc[c] = "idle"
    /\ \E f \in CallFilters : callWhere' = [callWhere EXCEPT ![c] = f]
    /\ callCtx' = [callCtx EXCEPT ![c] = NoContext]
    /\ param_counter' = 0
    /\ callPos' = [callPos EXCEPT ![c] = 1]
    /\ callPc' = [callPc EXCEPT ![c] = "building"]
    /\ callResult' = [callResult EXCEPT ![c] = NoResult]
    /\ UNCHANGED outsideCall

\* one iteration of the loop of _build_where_conditions, on the shared counter
BuildNext(c) ==
    /\ callPc[c] = "building"
    /\ callPos[c] <= Len(callWhere[c])
    /\ LET r == BuildItem(callWhere[c][callPos[c]],
                          [callCtx[c] EXCEPT !.counter = param_counter])
       IN /\ callCtx' = [callCtx EXCEPT ![c] = [r EXCEPT !.counter = 0]]
          /\ param_counter' = r.counter
    /\ callPos' = [callPos EXCEPT ![c] = @ + 1]
    /\ UNCHANGED <<callPc, callWhere, callResult, outsideCall>>

\* translate_where after the loop: the conditions joined, and the params
ReturnTranslate(c) ==
    /\ callPc[c] = "building"
    /\ callPos[c] > Len(callWhere[c])
    /\ callResult' = [callResult EXCEPT ![c] =
            [sql |-> join(<<Tok("AND")>>, callCtx[c].conds), params |-> callCtx[c].params]]
    /\ callPc' = [callPc EXCEPT ![c] = "done"]
    /\ UNCHANGED <<param_counter, callWhere, callPos, callCtx, outsideCall>>

\* the caller has taken the result
EndTranslate(c) ==
    /\ callPc[c] = "done"
    /\ callPc' = [callPc EXCEPT ![c] = "idle"]
    /\ callWhere' = [callWhere EXCEPT ![c] = <<>>]
    /\ callCtx' = [callCtx EXCEPT ![c] = NoContext]
    /\ callResult' = [callResult EXCEPT ![c] = NoResult]
    /\ callPos' = [callPos EXCEPT ![c] = 1]
    /\ UNCHANGED <<param_counter, outsideCall>>


(***************************************************************************)
(* The placeholder substitution of execute_with_retry. SQL text is a       *)
(* sequence of characters; the params dict is the sequence of its items.   *)
(***************************************************************************)
DigitChars == <<"0", "1", "2", "3", "4", "5", "6", "7", "8", "9">>

RECURSIVE Digits(_)
\* str(n) for n >= 0
Digits(n) == IF n < 10 THEN <<DigitChars[n + 1]>>
             ELSE Digits(n \div 10) \o <<DigitChars[(n % 10) + 1]>>

\* f"p{i}"
PName(i) == <<"p">> \o Digits(i)

RECURSIVE replace(_, _, _)
\* s.replace(old, new): every occurrence, leftmost first, none overlapping
replace(s, old, new) ==
    IF Len(s) < Len(old) THEN s
    ELSE IF SubSeq(s, 1, Len(old)) = old
    THEN new \o replace(SubSeq(s, Len(old) + 1, Len(s)), old, new)
    ELSE <<Head(s)>> \o replace(Tail(s), old, new)

\* param_name in params / params[param_name]
HasParam(d, name) == \E j \in 1..Len(d) : d[j].name = name
ParamOf(d, name) == d[CHOOSE j \in 1..Len(d) : d[j].name = name].value

\* the text of one condition that refers to parameter p<i>
ConditionText(i) == <<"x", "=", "$">> \o PName(i) \o <<" ">>

InitSub ==
    /\ stmt_sql = <<>>
    /\ stmt_params = <<>>
    /\ stmt_used = <<>>
    /\ sub_pc = "building"
    /\ sub_i = 0
    /\ sql_with_params = <<>>
    /\ param_values = <<>>

\* the statement gets its next parameter; the SQL refers to it or (the
\* whole-list parameter of an in / not_in leaf) does not
AddParam ==
    /\ sub_pc = "building"
    /\ Len(stmt_params) < MaxParams
    /\ \E used \in BOOLEAN :
          /\ stmt_used' = Append(stmt_used, used)
          /\ stmt_sql' = IF used THEN stmt_sql \o ConditionText(Len(stmt_params))
                         ELSE stmt_sql
    /\ stmt_params' = Append(stmt_params, [name |-> PName(Len(stmt_params)),
                                           value |-> <<"value of", Len(stmt_params)>>])
    /\ UNCHANGED <<sub_pc, sub_i, sql_with_params, param_values, outsideSub>>

\* execute_with_retry up to the loop (if params: ... else: conn.execute(sql))
StartSubstitute ==
    /\ sub_pc = "building"
    /\ sub_pc' = IF stmt_params # <<>> THEN "substituting" ELSE "executed"
    /\ sql_with_params' = stmt_sql
    /\ param_values' = <<>>
    /\ sub_i' = 0
    /\ UNCHANGED <<stmt_sql, stmt_params, stmt_used, outsideSub>>

\* one iteration of  for i in range(len(params))
SubstituteStep ==
    /\ sub_pc = "substituting"
    /\ sub_i < Len(stmt_params)
    /\ IF HasParam(stmt_params, PName(sub_i))
       THEN /\ param_values' = Append(param_values, ParamOf(stmt_params, PName(sub_i)))
            /\ sql_with_params' = replace(sql_with_params, <<"$">> \o PName(sub_i),
                                          <<"$">> \o Digits(sub_i + 1))
       ELSE UNCHANGED <<param_values, sql_with_params>>
    /\ sub_i' = sub_i + 1
    /\ UNCHANGED <<stmt_sql, stmt_params, stmt_used, sub_pc, outsideSub>>

\* conn.execute(sql_with_params, param_values)
ExecuteStatement ==
    /\ sub_pc = "substituting"
    /\ sub_i = Len(stmt_params)
    /\ sub_pc' = "executed"
    /\ UNCHANGED <<stmt_sql, stmt_params, stmt_used, sub_i, sql_with_params,
                   param_values, outsideSub>>

(***************************************************************************)
(* execute_query's error path: the correlation id of the execution, the    *)
(* context handed to enhance_duckdb_error and the error it builds. A       *)
(* context is the set of its <<key, value>> items; a message is the        *)
(* sequence of its parts, literals and the phrases of the engine text.     *)
(***************************************************************************)
RawPhrases == {"Could not find column", "Cannot compare values of type", "Type mismatch",
               "Parser Error", "Syntax error", "Catalog Error", "Connection failed",
               "Invalid SQL syntax"}
RawTypes == {"ConnectionException", "IOException", "InvalidInputException",
             "CatalogException", "RuntimeError"}

\* the context arguments callers pass: None or {}, with or without an id and a table
GivenContexts == SUBSET { <<"correlation_id", <<"given", 1>>>>, <<"table", "users">> }

HasItem(ctx, k) == \E it \in ctx : it[1] = k
\* ctx.get(k, default)
Get(ctx, k, default) == IF HasItem(ctx, k) THEN (CHOOSE it \in ctx : it[1] = k)[2]
                        ELSE default
\* ctx updated with the items of more
Update(ctx, more) == {it \in ctx : ~HasItem(more, it[1])} \cup more

\* str(uuid.uuid4()): a value not handed out before
uuid4(n) == <<"uuid4", n>>

\* the syntax branch also formats the engine text into its message
ErrorMessage_RawInSyntax(branch, e) ==
    CASE branch = "column" -> <<"Column '<column_name>' not found">>
      [] branch = "type" -> <<"Type mismatch in filter condition">>
      [] branch = "syntax" -> <<"SQL syntax error in generated query: ">> \o e.text
      [] branch = "connection" -> <<"Database connection failed">>
      [] branch = "catalog" -> <<"Table '<table_name>' not found">>
      [] OTHER -> <<"Database error: ">> \o e.text

\* the message each branch gives the error
ErrorMessage(branch, e) ==
    CASE branch = "column" -> <<"Column '<column_name>' not found">>
      [] branch = "type" -> <<"Type mismatch in filter condition">>
      [] branch = "syntax" -> <<"SQL syntax error in generated query">>
      [] branch = "connection" -> <<"Database connection failed">>
      [] branch = "catalog" -> <<"Table '<table_name>' not found">>
      [] OTHER -> <<"Database error: ">> \o e.text

\* the suggestions of each branch (ConnectionError supplies its own)
ErrorSuggestions(branch) ==
    CASE branch = "column" -> <<"Check if the column name is spelled correctly",
                                "Use 'duckql tables' to see available columns",
                                "Ensure the column exists in table">>
      [] branch = "type" -> <<"Ensure you're comparing compatible types",
                              "Use proper quotes for string values",
                              "Check if numeric fields are being compared with string values">>
      [] branch = "syntax" -> <<"This might be a bug in DuckQL's SQL generation",
                                "Try simplifying your GraphQL query",
                                "Report this issue with your GraphQL query and schema">>
      [] branch = "connection" -> <<"Check if the database file exists and is accessible",
                                    "Verify you have the necessary permissions",
                                    "Ensure the database is not locked by another process">>
      [] branch = "catalog" -> <<"Check if the table name is spelled correctly",
                                 "Use 'duckql tables' to see available tables",
                                 "Ensure the table has been created in the database">>
      [] OTHER -> <<>>

\* the context map of the error of each branch
ErrorContext(branch, e, context) ==
    CASE branch = "column" -> { <<"table", Get(context, "table", "unknown")>>,
                                <<"column", "<column_name>">> }
      [] branch = "type" -> { <<"original_error", e.text>> }
      [] branch = "syntax" -> Update({ <<"original_error", e.text>> }, context)
      [] branch = "connection" -> Update({ <<"original_error", e.text>> }, context)
      [] branch = "catalog" -> { <<"table", "<table_name>">> }
      [] OTHER -> Update({ <<"error_type", e.type>> }, context)

\* enhance_duckdb_error(original_error, **context): the error it returns;
\* no branch passes correlation_id, so DuckQLError.__init__ draws a uuid4
EnhancedError(e, context, n) ==
    [kind |-> enhance_duckdb_error(e),
     branch |-> Branch(e),
     message |-> ErrorMessage(Branch(e), e),
     suggestions |-> ErrorSuggestions(Branch(e)),
     context |-> ErrorContext(Branch(e), e, context),
     correlation_id |-> uuid4(n)]

NoEnhancedError ==
    [kind |-> "None", branch |-> "None", message |-> <<>>, suggestions |-> <<>>,
     context |-> {}, correlation_id |-> <<>>]

InitErr ==
    /\ q_pc = "idle"
    /\ q_context = {}
    /\ q_correlation_id = <<>>
    /\ q_raw = NoError
    /\ q_error = NoEnhancedError
    /\ raw_text = <<>>
    /\ next_uuid = 0

\* the engine error this execution is going to meet gets one more phrase
AddPhrase ==
    /\ q_pc = "idle"
    /\ Len(raw_text) < MaxPhrases
    /\ \E ph \in RawPhrases : raw_text' = Append(raw_text, ph)
    /\ UNCHANGED <<q_pc, q_context, q_correlation_id, q_raw, q_error, next_uuid, outsideErr>>

\* execute_query up to the try: the correlation id is the context's or a new one
StartQuery ==
    /\ q_pc = "idle"
    /\ \E ctx \in GivenContexts :
          /\ q_context' = ctx
          /\ IF HasItem(ctx, "correlation_id")
             THEN /\ q_correlation_id' = Get(ctx, "correlation_id", <<>>)
                  /\ next_uuid' = next_uuid
             ELSE /\ q_correlation_id' = uuid4(next_uuid)
                  /\ next_uuid' = next_uuid + 1
    /\ q_pc' = "running"
    /\ UNCHANGED <<q_raw, q_error, raw_text, outsideErr>>

\* _execute_sync raised e: execute_query's except branch raises the enhanced error
QueryFails ==
    /\ q_pc = "running"
    /\ \E t \in RawTypes :
          LET e == [type |-> t, text |-> raw_text]
              error_context == Update(q_context,
                  { <<"correlation_id", q_correlation_id>>, <<"sql", "<sql>">>,
                    <<"params", "<params>">>, <<"execution_time_ms", "<ms>">> })
          IN /\ q_raw' = e
             /\ q_error' = EnhancedError(e, error_context, next_uuid)
    /\ next_uuid' = next_uuid + 1
    /\ q_pc' = "raised"
    /\ UNCHANGED <<q_context, q_correlation_id, raw_text, outsideErr>>

(***************************************************************************)
(* Filters with values of an unexpected kind, and the translation that     *)
(* ends with an exception.                                                 *)
(***************************************************************************)
\* a combinator key whose value is no list of dicts / no dict, and a
\* membership key whose value is no list
MalformedItems ==
    { [key |-> S_and, vkind |-> "null", val |-> 0, elems |-> <<>>, subs |-> <<>>],
      [key |-> S_and, vkind |-> "scalar", val |-> 5, elems |-> <<>>, subs |-> <<>>],
      [key |-> S_or, vkind |-> "list", val |-> 0, elems |-> <<1>>, subs |-> <<>>],
      [key |-> S_not, vkind |-> "null", val |-> 0, elems |-> <<>>, subs |-> <<>>],
      [key |-> S_not, vkind |-> "scalar", val |-> 5, elems |-> <<>>, subs |-> <<>>],
      LeafItem(K_b_in, "scalar", 5, <<>>),
      LeafItem(K_c_not_in, "scalar", 5, <<>>) }

InitTotal == translate_raised = FALSE

\* the caller writes an item whose value has an unexpected kind
AddMalformed ==
    /\ ~translated
    /\ ~translate_raised
    /\ weight < MaxWeight
    /\ \E e \in MalformedItems :
          /\ ~HasKey(where, e.key)
          /\ where' = Append(where, e)
    /\ weight' = weight + 1
    /\ UNCHANGED <<stack, where_sql, params, translated, outsideFilter>>

\* translate_where called with the finished filter does not return: the
\* loop of _build_where_conditions raised TypeError / AttributeError
TranslateWhereRaises ==
    /\ ~translated
    /\ ~translate_raised
    /\ stack = <<>>
    /\ translate_where(where).error
    /\ translate_raised' = TRUE
    /\ UNCHANGED outsideTotal

(***************************************************************************)
(* The HAVING clause of aggregate_resolver. The having input has one field *)
(* for each annotation of build_having_input_type, None unless set; the    *)
(* resolver walks the set fields in annotation order.                      *)
(***************************************************************************)
\* the numeric columns of the table, in table order
NumericColumns == << <<"b", "a", "l", "a", "n", "c", "e">>,
                     <<"c", "o", "u", "n", "t">>,
                     <<"u", "n", "i", "t", "_", "p", "r", "i", "c", "e">> >>
S_count == <<"c", "o", "u", "n", "t">>
HavingFuncs == << <<"s", "u", "m">>, <<"a", "v", "g">>, <<"m", "i", "n">>, <<"m", "a", "x">> >>
HavingOps == <<S_gt, S_gte, S_lt, S_lte, S_eq, S_ne>>

\* build_having_input_type: the annotations, count_<op> first, then
\* <field>_<func>_<op> for each numeric column
HavingAnnotations ==
    [i \in 1..Len(HavingOps) |->
        [field |-> <<>>, func |-> S_count, op |-> HavingOps[i],
         key |-> S_count \o <<"_">> \o HavingOps[i]]]
    \o [j \in 1..(Len(NumericColumns) * Len(HavingFuncs) * Len(HavingOps)) |->
        LET c == NumericColumns[((j - 1) \div (Len(HavingFuncs) * Len(HavingOps))) + 1]
            f == HavingFuncs[(((j - 1) \div Len(HavingOps)) % Len(HavingFuncs)) + 1]
            o == HavingOps[((j - 1) % Len(HavingOps)) + 1]
        IN [field |-> c, func |-> f, op |-> o,
            key |-> c \o <<"_">> \o f \o <<"_">> \o o]]

\* func_name.upper()
upper(f) ==
    CASE f = <<"s", "u", "m">> -> "SUM"
      [] f = <<"a", "v", "g">> -> "AVG"
      [] f = <<"m", "i", "n">> -> "MIN"
      [] f = <<"m", "a", "x">> -> "MAX"
      [] f = S_count -> "COUNT"
      [] OTHER -> "<upper>"

\* key.startswith(prefix)
startswith(k, prefix) == Len(k) >= Len(prefix) /\ SubSeq(k, 1, Len(prefix)) = prefix

\* the SQL comparison of a HAVING operator, "" when the operator is none of the six
HavingComparison(op) ==
    CASE op = S_gt -> ">"
      [] op = S_gte -> ">="
      [] op = S_lt -> "<"
      [] op = S_lte -> "<="
      [] op = S_eq -> "="
      [] op = S_ne -> "!="
      [] OTHER -> ""

\* an aggregate expression FUNC(field) / COUNT(*) as one SQL token
Aggregate(func, field) == [tok |-> func, name |-> field, n |-> 0]

\* _input_to_dict(having): the fields that are not None, in annotation order
HavingDict(set) ==
    LET idx == SelectSeq([i \in 1..Len(HavingAnnotations) |-> i], LAMBDA i : i \in set)
    IN [j \in 1..Len(idx) |-> [key |-> HavingAnnotations[idx[j]].key,
                                value |-> ScalarValue(idx[j])]]

\* one iteration of  for key, value in having_dict.items()
HavingItem(it, st) ==
    LET param_name == Len(st.params)
        ps == DictSet(st.params, param_name, it.value)
        parts == split(it.key, "_")
        isCount == startswith(it.key, S_count \o <<"_">>)
        skipped == ~isCount /\ Len(parts) < 3
        op == IF isCount THEN SubSeq(it.key, 7, Len(it.key))
                    ELSE parts[Len(parts)]
        aggregate_field ==
            IF isCount THEN Aggregate("COUNT", <<"*">>)
            ELSE Aggregate(upper(parts[Len(parts) - 1]),
                           join(<<"_">>, ButLastParts(parts, 2)))
    IN IF skipped \/ HavingComparison(op) = ""
       THEN [st EXCEPT !.params = ps]
       ELSE [st EXCEPT !.params = ps,
                       !.conds = Append(@, <<aggregate_field, Tok(HavingComparison(op)),
                                             Placeholder(param_name)>>)]

RECURSIVE HavingLoop(_, _)
HavingLoop(items, st) ==
    IF items = <<>> THEN st ELSE HavingLoop(Tail(items), HavingItem(Head(items), st))

\* the where arguments of the aggregate queries of this model
HavingWheres == { <<>>, <<LeafItem(K_a, "scalar", 9, <<>>)>>,
                  <<LeafItem(K_a, "null", 0, <<>>)>>,
                  <<LeafItem(K_b_in, "list", 0, <<1>>)>> }

\* params after the WHERE clause: where_params if the where gave conditions
WhereParams(w) ==
    IF w # <<>> /\ translate_where(w).sql # <<>> THEN translate_where(w).params ELSE <<>>

InitHaving ==
    /\ h_pc = "where"
    /\ h_where = <<>>
    /\ h_having = {}
    /\ h_params = <<>>
    /\ h_conditions = <<>>

\* the caller's where argument
ChooseWhere ==
    /\ h_pc = "where"
    /\ \E w \in HavingWheres : h_where' = w
    /\ h_pc' = "having"
    /\ UNCHANGED <<h_having, h_params, h_conditions, outsideHaving>>

\* the caller sets one more field of the having input
SetHaving ==
    /\ h_pc = "having"
    /\ Cardinality(h_having) < MaxHaving
    /\ \E i \in 1..Len(HavingAnnotations) :
          /\ i \notin h_having
          /\ h_having' = h_having \cup {i}
    /\ UNCHANGED <<h_pc, h_where, h_params, h_conditions, outsideHaving>>

\* aggregate_resolver from the WHERE clause to the HAVING clause
BuildHaving ==
    /\ h_pc = "having"
    /\ LET st == HavingLoop(HavingDict(h_having),
                            [params |-> WhereParams(h_where), conds |-> <<>>])
       IN /\ h_params' = st.params
          /\ h_conditions' = st.conds
    /\ h_pc' = "built"
    /\ UNCHANGED <<h_where, h_having, outsideHaving>>

(***************************************************************************)
(* The reshaping of a result row by aggregate_resolver. A dict is the      *)
(* sequence of its [name, value] items; None is the value Null.            *)
(***************************************************************************)
Null == [kind |-> "None"]
\* the value the engine returned for a result column
EngineValue(k) == [kind |-> "value", of |-> k]

\* name in d / d.get(name, default)
DictHas(d, name) == \E i \in 1..Len(d) : d[i].name = name
DictGet(d, name, default) ==
    IF DictHas(d, name) THEN d[CHOOSE i \in 1..Len(d) : d[i].name = name].value
    ELSE default

\* the columns of the table: name and whether its type is numeric
C_region == <<"r", "e", "g", "i", "o", "n">>
C_revenue == <<"r", "e", "v", "e", "n", "u", "e">>
C_total_sum == <<"t", "o", "t", "a", "l", "_", "s", "u", "m">>
TableColumns == << [name |-> C_region, numeric |-> FALSE],
                   [name |-> C_revenue, numeric |-> TRUE],
                   [name |-> C_total_sum, numeric |-> TRUE] >>
ColumnNames == {TableColumns[i].name : i \in 1..Len(TableColumns)}
NumericNames == {TableColumns[i].name : i \in {j \in 1..Len(TableColumns) :
                                                  TableColumns[j].numeric}}

S_agg == <<"a", "g", "g">>
S_count_ == <<"c", "o", "u", "n", "t", "_">>
S__count == <<"_", "c", "o", "u", "n", "t">>
AggFunctions == << <<"s", "u", "m">>, <<"a", "v", "g">>, <<"m", "i", "n">>, <<"m", "a", "x">>,
                   <<"s", "t", "d", "d", "e", "v">>,
                   <<"v", "a", "r", "i", "a", "n", "c", "e">> >>
AggFunctionSet == {AggFunctions[i] : i \in 1..Len(AggFunctions)}

\* build_aggregate_type: the fields of the aggregate type
type_fields ==
    ColumnNames \cup {n \o <<"_">> \o S_agg : n \in NumericNames} \cup {S_count_}

\* the default functions: SUM, AVG, MIN, MAX of each numeric column
DefaultAliases ==
    [j \in 1..(Len(TableColumns) * 4) |->
        TableColumns[((j - 1) \div 4) + 1].name \o <<"_">> \o AggFunctions[((j - 1) % 4) + 1]]
DefaultFunctions ==
    SelectSeq(DefaultAliases,
              LAMBDA a : \E n \in NumericNames : \E f \in AggFunctionSet : a = n \o <<"_">> \o f)

\* the aliases of the functions a caller may pass instead
CallerAliases == { C_revenue \o <<"_">> \o AggFunctions[1], C_revenue \o <<"_">> \o AggFunctions[5],
                   C_revenue \o <<"_">> \o AggFunctions[6], C_region \o <<"_">> \o AggFunctions[3] }

\* the reshaping of one row item into instance_data
ReshapeItem(it, instance_data) ==
    LET parts == split(it.name, "_")
        func_name == parts[Len(parts)]
        agg_name == join(<<"_">>, ButLastParts(parts, 1)) \o <<"_">> \o S_agg
    IN IF it.name = S__count THEN DictSet(instance_data, S_count_, it.value)
       ELSE IF Len(parts) > 1 /\ func_name \in AggFunctionSet
       THEN DictSet(instance_data, agg_name,
                    [kind |-> "dict",
                     items |-> DictSet(DictGet(instance_data, agg_name,
                                               [kind |-> "dict", items |-> <<>>]).items,
                                       func_name, it.value)])
       ELSE DictSet(instance_data, it.name, it.value)

RECURSIVE ReshapeRow(_, _)
\* for key, value in row.items()
ReshapeRow(row, instance_data) ==
    IF row = <<>> THEN instance_data
    ELSE ReshapeRow(Tail(row), ReshapeItem(Head(row), instance_data))

\* a nested aggregate object of sum, avg, min and max only
AggObject_FourFunctions(d) ==
    [kind |-> "agg",
     fields |-> [f \in AggFunctionSet |->
                    IF f \in {AggFunctions[i] : i \in 1..4} THEN DictGet(d, f, Null) ELSE Null]]

\* the nested aggregate object built of a dict: every function, None if missing
AggObject(d) == [kind |-> "agg", fields |-> [f \in AggFunctionSet |-> DictGet(d, f, Null)]]

\* full_instance_data: a value for every field of the aggregate type
FullInstance(instance_data) ==
    [f \in type_fields |->
        IF DictHas(instance_data, f)
        THEN LET value == DictGet(instance_data, f, Null)
             IN IF value.kind = "dict" THEN AggObject(value.items) ELSE value
        ELSE Null]

InitReshape ==
    /\ r_pc = "query"
    /\ r_group_by = <<>>
    /\ r_functions = <<>>
    /\ r_row = <<>>
    /\ r_instance = [f \in type_fields |-> Null]

\* the caller names one more group-by column
AddGroupBy ==
    /\ r_pc = "query"
    /\ Len(r_group_by) < MaxGroupBy
    /\ \E c \in ColumnNames :
          /\ \A i \in 1..Len(r_group_by) : r_group_by[i] # c
          /\ r_group_by' = Append(r_group_by, c)
    /\ UNCHANGED <<r_pc, r_functions, r_row, r_instance, outsideReshape>>

\* the caller passes one more function  FUNC(column) as alias
AddFunction ==
    /\ r_pc = "query"
    /\ Len(r_functions) < MaxFunctions
    /\ \E a \in CallerAliases :
          /\ \A i \in 1..Len(r_functions) : r_functions[i] # a
          /\ r_functions' = Append(r_functions, a)
    /\ UNCHANGED <<r_pc, r_group_by, r_row, r_instance, outsideReshape>>

\* the query ran: a row has the group-by columns, _count and the functions
FetchRow ==
    /\ r_pc = "query"
    /\ LET functions == IF r_functions = <<>> THEN DefaultFunctions ELSE r_functions
           columns == r_group_by \o <<S__count>> \o functions
       IN r_row' = [i \in 1..Len(columns) |->
                        [name |-> columns[i], value |-> EngineValue(columns[i])]]
    /\ r_pc' = "fetched"
    /\ UNCHANGED <<r_group_by, r_functions, r_instance, outsideReshape>>

\* the loop body over result.rows, for this row
Reshape ==
    /\ r_pc = "fetched"
    /\ r_instance' = FullInstance(ReshapeRow(r_row, <<>>))
    /\ r_pc' = "reshaped"
    /\ UNCHANGED <<r_group_by, r_functions, r_row, outsideReshape>>

(***************************************************************************)
(* execute_query: the reports to the metrics collector and the executor's  *)
(* own counters. Two calls may be in flight (execute_many gathers them);   *)
(* the executor was constructed with a metrics collector.                  *)
(***************************************************************************)
QueryCalls == 1..2
\* the context argument: absent, an empty dict, or a dict with entries
ContextKinds == {"None", "empty", "given"}
\* execution_time of a call, in milliseconds
Durations == {1, 2}
RowCounts == {0, 1}
ErrorTexts == {"Connection failed", "Invalid SQL syntax"}

NoOutcome == [kind |-> "none", row_count |-> 0, error |-> ""]

\* if self.metrics and context: a dict without entries is falsy
StartsMetrics(context) == context = "given"

\* get_stats: average_query_time_ms = total / count, as a fraction
AverageTime(total, count) ==
    IF count > 0 THEN [num |-> total, den |-> count] ELSE [num |-> 0, den |-> 1]

get_stats == [query_count |-> query_count,
              total_query_time_ms |-> total_query_time,
              average_query_time_ms |-> AverageTime(total_query_time, query_count)]

InitStats ==
    /\ s_pc = [c \in QueryCalls |-> "idle"]
    /\ s_context = [c \in QueryCalls |-> "None"]
    /\ s_query_metrics = [c \in QueryCalls |-> FALSE]
    /\ s_outcome = [c \in QueryCalls |-> NoOutcome]
    /\ s_reports = [c \in QueryCalls |-> <<>>]
    /\ query_count = 0
    /\ total_query_time = 0
    /\ s_completed = <<>>
    /\ s_stats = [query_count |-> 0, total_query_time_ms |-> 0,
                  average_query_time_ms |-> AverageTime(0, 0)]

\* execute_query up to the await: start_query only with a collector and a context
BeginQuery(c) ==
    /\ s_pc[c] = "idle"
    /\ \E context \in ContextKinds :
          /\ s_context' = [s_context EXCEPT ![c] = context]
          /\ s_query_metrics' = [s_query_metrics EXCEPT ![c] = StartsMetrics(context)]
    /\ s_pc' = [s_pc EXCEPT ![c] = "running"]
    /\ s_outcome' = [s_outcome EXCEPT ![c] = NoOutcome]
    /\ s_reports' = [s_reports EXCEPT ![c] = <<>>]
    /\ UNCHANGED <<query_count, total_query_time, s_completed, s_stats, outsideStats>>

\* a failed call counted like a successful one
QueryRaises_Counted(c) ==
    /\ s_pc[c] = "running"
    /\ query_count < MaxQueries
    /\ \E text \in ErrorTexts :
          /\ s_reports' = [s_reports EXCEPT ![c] =
                IF s_query_metrics[c] THEN Append(@, [row_count |-> 0, error |-> text]) ELSE @]
          /\ s_outcome' = [s_outcome EXCEPT
                ![c] = [kind |-> "raised", row_count |-> 0, error |-> text]]
    /\ query_count' = query_count + 1
    /\ s_pc' = [s_pc EXCEPT ![c] = "done"]
    /\ UNCHANGED <<s_context, s_query_metrics, total_query_time, s_completed,
                   s_stats, outsideStats>>

\* the await returned a result: the counters under the lock, complete_query
QueryReturns(c) ==
    /\ s_pc[c] = "running"
    /\ query_count < MaxQueries
    /\ \E execution_time \in Durations : \E rows \in RowCounts :
          /\ query_count' = query_count + 1
          /\ total_query_time' = total_query_time + execution_time
          /\ s_completed' = Append(s_completed, execution_time)
          /\ s_reports' = [s_reports EXCEPT ![c] =
                IF s_query_metrics[c] THEN Append(@, [row_count |-> rows, error |-> ""]) ELSE @]
          /\ s_outcome' = [s_outcome EXCEPT
                ![c] = [kind |-> "returned", row_count |-> rows, error |-> ""]]
    /\ s_pc' = [s_pc EXCEPT ![c] = "done"]
    /\ UNCHANGED <<s_context, s_query_metrics, s_stats, outsideStats>>

\* the await raised: complete_query with the error, the enhanced error raised
QueryRaises(c) ==
    /\ s_pc[c] = "running"
    /\ \E text \in ErrorTexts :
          /\ s_reports' = [s_reports EXCEPT ![c] =
                IF s_query_metrics[c] THEN Append(@, [row_count |-> 0, error |-> text]) ELSE @]
          /\ s_outcome' = [s_outcome EXCEPT
                ![c] = [kind |-> "raised", row_count |-> 0, error |-> text]]
    /\ s_pc' = [s_pc EXCEPT ![c] = "done"]
    /\ UNCHANGED <<s_context, s_query_metrics, query_count, total_query_time, s_completed,
                   s_stats, outsideStats>>

\* the caller has the result or the error; the call's frame is gone
QueryEnds(c) ==
    /\ s_pc[c] = "done"
    /\ s_pc' = [s_pc EXCEPT ![c] = "idle"]
    /\ UNCHANGED <<s_context, s_query_metrics, s_outcome, s_reports, query_count,
                   total_query_time, s_completed, s_stats, outsideStats>>

\* QueryExecutor.reset_stats
reset_stats ==
    /\ query_count' = 0
    /\ total_query_time' = 0
    /\ s_completed' = <<>>
    /\ UNCHANGED <<s_pc, s_context, s_query_metrics, s_outcome, s_reports, s_stats,
                   outsideStats>>

\* QueryExecutor.get_stats
GetStats ==
    /\ s_stats' = get_stats
    /\ UNCHANGED <<s_pc, s_context, s_query_metrics, s_outcome, s_reports, query_count,
                   total_query_time, s_completed, outsideStats>>

(***************************************************************************)
(* with_retry: the blocking wrapper and the coroutine wrapper, each run on *)
(* the outcomes of the successive calls of func. An outcome is NoError     *)
(* (func returns) or the exception func raises.                            *)
(***************************************************************************)
RetryDelays == {retry_delay, 50}
RetryBackoffs == {retry_backoff, 3}
AttemptOutcomes == {NoError} \cup EngineErrors \cup {PoolTimeoutError}

NotRun == [attempts |-> 0, delays |-> <<>>, result |-> "none", error |-> NoError]

\* the locals of a wrapper before its loop
WrapperStart(policy) ==
    [attempt |-> 0, current_delay |-> policy.delay, last_exception |-> NoError,
     delays |-> <<>>]

RECURSIVE wrapper_loop(_, _, _)
\* wrapper: for attempt in range(max_retries + 1), time.sleep between attempts
wrapper_loop(policy, outcomes, st) ==
    IF st.attempt > policy.max_retries
    THEN [attempts |-> st.attempt, delays |-> st.delays, result |-> "raised",
          error |-> st.last_exception]
    ELSE LET e == outcomes[st.attempt + 1]
         IN IF e = NoError
            THEN [attempts |-> st.attempt + 1, delays |-> st.delays, result |-> "returned",
                  error |-> NoError]
            ELSE IF ~IsRetryable(e)
            THEN [attempts |-> st.attempt + 1, delays |-> st.delays, result |-> "raised",
                  error |-> e]
            ELSE IF st.attempt < policy.max_retries
            THEN wrapper_loop(policy, outcomes,
                    [attempt |-> st.attempt + 1,
                     current_delay |-> st.current_delay * policy.backoff,
                     last_exception |-> e,
                     delays |-> Append(st.delays, st.current_delay)])
            ELSE wrapper_loop(policy, outcomes,
                    [st EXCEPT !.attempt = @ + 1, !.last_exception = e])

wrapper(policy, outcomes) == wrapper_loop(policy, outcomes, WrapperStart(policy))

RECURSIVE async_wrapper_loop(_, _, _)
\* async_wrapper: the same loop around await func, asyncio.sleep between attempts
async_wrapper_loop(policy, outcomes, st) ==
    IF st.attempt > policy.max_retries
    THEN [attempts |-> st.attempt, delays |-> st.delays, result |-> "raised",
          error |-> st.last_exception]
    ELSE LET e == outcomes[st.attempt + 1]
         IN IF e = NoError
            THEN [attempts |-> st.attempt + 1, delays |-> st.delays, result |-> "returned",
                  error |-> NoError]
            ELSE IF ~IsRetryable(e)
            THEN [attempts |-> st.attempt + 1, delays |-> st.delays, result |-> "raised",
                  error |-> e]
            ELSE IF st.attempt < policy.max_retries
            THEN async_wrapper_loop(policy, outcomes,
                    [attempt |-> st.attempt + 1,
                     current_delay |-> st.current_delay * policy.backoff,
                     last_exception |-> e,
                     delays |-> Append(st.delays, st.current_delay)])
            ELSE async_wrapper_loop(policy, outcomes,
                    [st EXCEPT !.attempt = @ + 1, !.last_exception = e])

\* the coroutine wrapper sleeping the initial delay every time
async_wrapper_FixedDelay(policy, outcomes) ==
    LET r == wrapper(policy, outcomes)
    IN [r EXCEPT !.delays = [i \in 1..Len(@) |-> policy.delay]]

async_wrapper(policy, outcomes) == async_wrapper_loop(policy, outcomes, WrapperStart(policy))

InitRetry ==
    /\ w_policy = [max_retries |-> 0, delay |-> retry_delay, backoff |-> retry_backoff]
    /\ w_outcomes = <<>>
    /\ w_sync = NotRun
    /\ w_async = NotRun

\* with_retry(max_retries, delay, backoff) is applied
ChoosePolicy ==
    /\ w_outcomes = <<>>
    /\ w_sync = NotRun /\ w_async = NotRun
    /\ \E r \in 0..MaxRetriesBound : \E d \in RetryDelays : \E b \in RetryBackoffs :
          w_policy' = [max_retries |-> r, delay |-> d, backoff |-> b]
    /\ UNCHANGED <<w_outcomes, w_sync, w_async, outsideRetry>>

\* what the next call of func will do
AddOutcome ==
    /\ Len(w_outcomes) < w_policy.max_retries + 1
    /\ w_sync = NotRun /\ w_async = NotRun
    /\ \E e \in AttemptOutcomes : w_outcomes' = Append(w_outcomes, e)
    /\ UNCHANGED <<w_policy, w_sync, w_async, outsideRetry>>

\* the decorated function is a plain function: wrapper runs
RunWrapper ==
    /\ Len(w_outcomes) = w_policy.max_retries + 1
    /\ w_sync = NotRun
    /\ w_sync' = wrapper(w_policy, w_outcomes)
    /\ UNCHANGED <<w_policy, w_outcomes, w_async, outsideRetry>>

\* the decorated function is a coroutine function: async_wrapper runs
RunAsyncWrapper ==
    /\ Len(w_outcomes) = w_policy.max_retries + 1
    /\ w_async = NotRun
    /\ w_async' = async_wrapper(w_policy, w_outcomes)
    /\ UNCHANGED <<w_policy, w_outcomes, w_sync, outsideRetry>>

(***************************************************************************)
(* QueryExecutor.__init__: the tables of the original connection are       *)
(* copied into every pooled connection by _copy_schema_to_pool, which      *)
(* starts on the pool as ConnectionPool.__init__ left it.                  *)
(***************************************************************************)
\* the tables SHOW TABLES returns on the original connection
OriginTables == [i \in 1..MaxTables |-> i]

\* what the copy of one table into one connection leaves there: the table
\* with its rows, nothing (the schema query or CREATE TABLE raised), or the
\* table with some of its rows (an INSERT raised)
CopyFailures == {"nothing", "some rows"}

InitCopy ==
    /\ copy_pc = "start"
    /\ copy_i = 0
    /\ copy_conn = {}
    /\ copy_tables = <<>>
    /\ copy_table = 0
    /\ copy_made = [c \in Conns |-> [t \in 1..MaxTables |-> "untried"]]
    /\ copy_visited = <<>>

\* SHOW TABLES on the original connection
ShowTables ==
    /\ copy_pc = "start"
    /\ copy_tables' = OriginTables
    /\ copy_pc' = "loop"
    /\ UNCHANGED <<copy_i, copy_conn, copy_table, copy_made, copy_visited>>
    /\ UNCHANGED <<pool, closed, execBesidePool, outsideExecAndCopy>>

\* SHOW TABLES raises: the outer except logs a warning
ShowTablesFails ==
    /\ copy_pc = "start"
    /\ copy_pc' = "done"
    /\ UNCHANGED <<copy_i, copy_conn, copy_tables, copy_table, copy_made, copy_visited>>
    /\ UNCHANGED <<pool, closed, execBesidePool, outsideExecAndCopy>>

\* the next cycle of the loop over range(max_connections): get_connection
CopyAcquire ==
    /\ copy_pc = "loop"
    /\ copy_i < MaxWorkers
    /\ pool # <<>>
    /\ copy_conn' = {Head(pool)}
    /\ copy_visited' = Append(copy_visited, Head(pool))
    /\ pool' = Tail(pool)
    /\ copy_table' = 1
    /\ copy_pc' = "tables"
    /\ UNCHANGED <<copy_i, copy_tables, copy_made>>
    /\ UNCHANGED <<closed, execBesidePool, outsideExecAndCopy>>

\* the inner try ran through for the next table
CopyTable ==
    /\ copy_pc = "tables"
    /\ copy_table <= Len(copy_tables)
    /\ \E c \in copy_conn :
          copy_made' = [copy_made EXCEPT ![c][copy_tables[copy_table]] = "copied"]
    /\ copy_table' = copy_table + 1
    /\ UNCHANGED <<copy_pc, copy_i, copy_conn, copy_tables, copy_visited>>
    /\ UNCHANGED <<pool, closed, execBesidePool, outsideExecAndCopy>>

\* a statement of the inner try raised: warning, continue with the next table
CopyTableFails ==
    /\ copy_pc = "tables"
    /\ copy_table <= Len(copy_tables)
    /\ \E c \in copy_conn : \E left \in CopyFailures :
          copy_made' = [copy_made EXCEPT ![c][copy_tables[copy_table]] = left]
    /\ copy_table' = copy_table + 1
    /\ UNCHANGED <<copy_pc, copy_i, copy_conn, copy_tables, copy_visited>>
    /\ UNCHANGED <<pool, closed, execBesidePool, outsideExecAndCopy>>

\* the tables are through: finally return_connection, the cycle ends
CopyRelease ==
    /\ copy_pc = "tables"
    /\ copy_table > Len(copy_tables)
    /\ \E c \in copy_conn :
          /\ pool' = return_connection(pool, closed, c).pool
          /\ closed' = return_connection(pool, closed, c).closed
    /\ copy_conn' = {}
    /\ copy_i' = copy_i + 1
    /\ copy_pc' = "loop"
    /\ UNCHANGED <<copy_tables, copy_table, copy_made, copy_visited>>
    /\ UNCHANGED <<execBesidePool, outsideExecAndCopy>>

\* the loop over the pool is through: __init__ goes on
CopyDone ==
    /\ copy_pc = "loop"
    /\ copy_i = MaxWorkers
    /\ copy_pc' = "done"
    /\ UNCHANGED <<copy_i, copy_conn, copy_tables, copy_table, copy_made, copy_visited>>
    /\ UNCHANGED <<pool, closed, execBesidePool, outsideExecAndCopy>>

(***************************************************************************)
(* Cancellation and close(). The statements of execute_query run on the    *)
(* worker threads as above; nothing else borrows from the pool, so with as *)
(* many connections as threads the queue is never empty when a worker      *)
(* asks. A caller that awaits run_in_executor may be cancelled; close()    *)
(* shuts the ThreadPoolExecutor down, waiting, and then empties the pool.  *)
(***************************************************************************)
InitLife ==
    /\ cancelled = [w \in Workers |-> -1]
    /\ closing = "open"
    /\ close_calls = 0

\* run_in_executor hands the work to a thread unless the executor is shut down
DispatchOpen(w) ==
    /\ closing = "open"
    /\ Dispatch(w)

\* the cancelled await stops the thread where it is
CancelAwait_Aborts(w) ==
    /\ pc[w] \in {"attempt", "execute", "sleep"}
    /\ cancelled[w] = -1
    /\ cancelled' = [cancelled EXCEPT ![w] = attempt[w]]
    /\ pc' = [pc EXCEPT ![w] = "raised"]
    /\ UNCHANGED <<closing, close_calls, outsideExecAndLife>>
    /\ UNCHANGED <<max_retries, pool, closed, borrowed, conn, attempt, current_delay,
                   last_exception, calls, retryableFailed, otherFailed, slept, raised,
                   surfaced>>

\* the task awaiting run_in_executor is cancelled: the running future cannot
\* be cancelled and _execute_sync reads no flag
CancelAwait(w) ==
    /\ pc[w] \in {"attempt", "execute", "sleep"}
    /\ cancelled[w] = -1
    /\ cancelled' = [cancelled EXCEPT ![w] = attempt[w]]
    /\ UNCHANGED <<closing, close_calls, outsideExecAndLife>>
    /\ UNCHANGED <<max_retries, pool, closed, borrowed, conn, attempt, current_delay,
                   last_exception, calls, retryableFailed, otherFailed, slept, raised,
                   surfaced, pc>>

\* execute_query resumes for a caller that was not cancelled
CompleteAwaited(w) ==
    /\ cancelled[w] = -1
    /\ Complete(w)

\* the thread is through for a cancelled caller: result or error are dropped
Discard(w) ==
    /\ cancelled[w] # -1
    /\ pc[w] \in {"returned", "raised"}
    /\ cancelled' = [cancelled EXCEPT ![w] = -1]
    /\ pc' = [pc EXCEPT ![w] = "idle"]
    /\ attempt' = [attempt EXCEPT ![w] = 0]
    /\ current_delay' = [current_delay EXCEPT ![w] = retry_delay]
    /\ last_exception' = [last_exception EXCEPT ![w] = NoError]
    /\ calls' = [calls EXCEPT ![w] = 0]
    /\ retryableFailed' = [retryableFailed EXCEPT ![w] = 0]
    /\ otherFailed' = [otherFailed EXCEPT ![w] = 0]
    /\ slept' = [slept EXCEPT ![w] = <<>>]
    /\ UNCHANGED <<max_retries, pool, closed, borrowed, conn, raised, surfaced>>
    /\ UNCHANGED <<closing, close_calls, outsideExecAndLife>>

\* close(): get_stats, then executor.shutdown(wait=True) begins
CloseBegin ==
    /\ closing \in {"open", "closed"}
    /\ close_calls < MaxCloses
    /\ close_calls' = close_calls + 1
    /\ closing' = "shutdown"
    /\ UNCHANGED <<cancelled, execVars, outsideExecAndLife>>

\* shutdown returns without waiting for the threads
ShutdownReturns_NoWait ==
    /\ closing = "shutdown"
    /\ closing' = "close_all"
    /\ UNCHANGED <<cancelled, close_calls, execVars, outsideExecAndLife>>

\* shutdown(wait=True) returns: every thread is through with its work
ShutdownReturns ==
    /\ closing = "shutdown"
    /\ \A w \in Workers : pc[w] \in {"idle", "returned", "raised"}
    /\ closing' = "close_all"
    /\ UNCHANGED <<cancelled, close_calls, execVars, outsideExecAndLife>>

\* close_all: one cycle of the loop, get(block=False) and conn.close()
CloseOne ==
    /\ closing = "close_all"
    /\ pool # <<>>
    /\ closed' = closed \cup {Head(pool)}
    /\ pool' = Tail(pool)
    /\ UNCHANGED <<cancelled, closing, close_calls, execBesidePool, outsideExecAndLife>>

\* close_all finds the queue empty; close() returns
CloseReturns ==
    /\ closing = "close_all"
    /\ pool = <<>>
    /\ closing' = "closed"
    /\ UNCHANGED <<cancelled, close_calls, execVars, outsideExecAndLife>>

\* the components beside the executor, each in its initial state
InitRest ==
    /\ InitFilter
    /\ InitKey
    /\ InitCall
    /\ InitSub
    /\ InitErr
    /\ InitTotal
    /\ InitHaving
    /\ InitReshape
    /\ InitStats
    /\ InitRetry
    /\ InitCopy
    /\ InitLife

Init == (\E r \in 0..MaxRetriesBound : InitExec(r)) /\ InitRest

\* no executor is at work while a filter is translated
InitTranslator == InitExec(0) /\ InitRest

Next ==
    \/ \E w \in Workers : Dispatch(w)
    \/ \E w \in Workers : GetConnection(w)
    \/ \E w \in Workers : GetConnectionTimeout(w)
    \/ \E w \in Workers : ExecuteOk(w)
    \/ \E w \in Workers : \E e \in EngineErrors : ExecuteFail(w, e)
    \/ \E w \in Workers : Sleep(w)
    \/ \E w \in Workers : Complete(w)
    \/ \E b \in Borrowers : PoolGet(b)
    \/ \E b \in Borrowers : PoolReturn(b)

Spec == Init /\ [][Next]_vars

NextFilter ==
    \/ AddLeaf
    \/ OpenDict
    \/ CloseCombinator
    \/ CloseNot
    \/ TranslateWhere

SpecFilter == InitTranslator /\ [][NextFilter]_vars

NextKey ==
    \/ AddKeyPart
    \/ SplitKey

SpecKey == InitTranslator /\ [][NextKey]_vars

NextCall ==
    \/ \E c \in Callers : BeginTranslate(c)
    \/ \E c \in Callers : BuildNext(c)
    \/ \E c \in Callers : ReturnTranslate(c)
    \/ \E c \in Callers : EndTranslate(c)
SpecCall == InitTranslator /\ [][NextCall]_vars

NextSub ==
    \/ AddParam
    \/ StartSubstitute
    \/ SubstituteStep
    \/ ExecuteStatement
SpecSub == InitTranslator /\ [][NextSub]_vars

NextErr ==
    \/ AddPhrase
    \/ StartQuery
    \/ QueryFails
SpecErr == InitTranslator /\ [][NextErr]_vars

NextTotal ==
    \/ AddLeaf
    \/ AddMalformed
    \/ OpenDict
    \/ CloseCombinator
    \/ CloseNot
    \/ TranslateWhere
    \/ TranslateWhereRaises
SpecTotal == InitTranslator /\ [][NextTotal]_vars

NextHaving ==
    \/ ChooseWhere
    \/ SetHaving
    \/ BuildHaving
SpecHaving == InitTranslator /\ [][NextHaving]_vars

NextReshape ==
    \/ AddGroupBy
    \/ AddFunction
    \/ FetchRow
    \/ Reshape
SpecReshape == InitTranslator /\ [][NextReshape]_vars

NextStats ==
    \/ \E c \in QueryCalls : BeginQuery(c)
    \/ \E c \in QueryCalls : QueryReturns(c)
    \/ \E c \in QueryCalls : QueryRaises(c)
    \/ \E c \in QueryCalls : QueryEnds(c)
    \/ reset_stats
    \/ GetStats
SpecStats == InitTranslator /\ [][NextStats]_vars

NextRetry ==
    \/ ChoosePolicy
    \/ AddOutcome
    \/ RunWrapper
    \/ RunAsyncWrapper
SpecRetry == InitTranslator /\ [][NextRetry]_vars

NextCopy ==
    \/ ShowTables
    \/ ShowTablesFails
    \/ CopyAcquire
    \/ CopyTable
    \/ CopyTableFails
    \/ CopyRelease
    \/ CopyDone
SpecCopy == InitTranslator /\ [][NextCopy]_vars

NextLife ==
    \/ \E w \in Workers : DispatchOpen(w)
    \/ \E w \in Workers : GetConnection(w)
    \/ \E w \in Workers : ExecuteOk(w)
    \/ \E w \in Workers : \E e \in EngineErrors : ExecuteFail(w, e)
    \/ \E w \in Workers : Sleep(w)
    \/ \E w \in Workers : CompleteAwaited(w)
    \/ \E w \in Workers : CancelAwait(w)
    \/ \E w \in Workers : Discard(w)
    \/ CloseBegin
    \/ ShutdownReturns
    \/ CloseOne
    \/ CloseReturns
SpecLife == Init /\ [][NextLife]_vars

\* a thread that can take its next step takes it: the connection is there,
\* the statement ends, the delay ends
ThreadStep(w) ==
    \/ GetConnection(w)
    \/ ExecuteOk(w)
    \/ \E e \in EngineErrors : ExecuteFail(w, e)
    \/ Sleep(w)
SpecLifeFair == SpecLife /\ \A w \in Workers : WF_vars(ThreadStep(w))

(***************************************************************************)
(* The claims about the executor, checked under Spec.                      *)
(***************************************************************************)
InPool(c) == \E i \in 1..Len(pool) : pool[i] = c
PoolExhausted(e) == InMessage("Unable to get database connection from pool", e)

\* C1: with max_retries = k, an execution whose every attempt failed with a
\* retryable error has made exactly k + 1 attempts when it raises, it raises
\* the error of its last attempt, and no execution makes more than k + 1
\* attempts.
C1_RetryableAttemptedKPlusOne ==
    \A w \in Workers :
        /\ calls[w] <= max_retries + 1
        /\ (pc[w] = "raised" /\ retryableFailed[w] = calls[w]) =>
               /\ calls[w] = max_retries + 1
               /\ raised[w] = last_exception[w]
               /\ IsRetryable(raised[w])

C1_Witness ==
    \E w \in Workers :
        /\ pc[w] = "raised"
        /\ max_retries = 2
        /\ calls[w] = 3
        /\ retryableFailed[w] = 3

\* C2: an attempt that fails with an error that is not retryable ends the
\* execution in that very step: the error is raised, it is the only such
\* failure, no delay was slept after it (one delay per earlier retryable
\* failure), and no attempt follows it.
C2_NonRetryableRaisedAtOnce ==
    \A w \in Workers :
        otherFailed[w] > 0 =>
            /\ pc[w] = "raised"
            /\ otherFailed[w] = 1
            /\ raised[w] = last_exception[w]
            /\ ~IsRetryable(raised[w])
            /\ calls[w] = retryableFailed[w] + 1
            /\ Len(slept[w]) = retryableFailed[w]

C2_Witness ==
    \E w \in Workers :
        /\ pc[w] = "raised"
        /\ otherFailed[w] = 1
        /\ retryableFailed[w] >= 1
        /\ max_retries > retryableFailed[w]

\* C3: a worker holds a connection only while an attempt is executing: once
\* the attempt has ended (it succeeded, it failed and waits for a retry, or
\* the execution has returned or raised) the connection is back in the pool,
\* and no connection is closed or lost.
C3_ConnectionReturnedOnEveryPath ==
    /\ \A w \in Workers : pc[w] # "execute" => conn[w] = {}
    /\ \A c \in Conns :
          \/ InPool(c)
          \/ \E w \in Workers : pc[w] = "execute" /\ c \in conn[w]
          \/ \E b \in Borrowers : c \in borrowed[b]
    /\ closed = {}

C3_Witness ==
    \E w \in Workers :
        /\ pc[w] = "raised"
        /\ calls[w] > 1
        /\ ~PoolExhausted(raised[w])
        /\ conn[w] = {}
        /\ Len(pool) = MaxWorkers

\* C4: no connection is held by two workers, a held connection is neither in
\* the pool nor with a direct borrower, and a worker that is executing an
\* attempt holds exactly one connection.
C4_ExclusiveConnection ==
    /\ \A w1, w2 \in Workers : w1 # w2 => conn[w1] \cap conn[w2] = {}
    /\ \A w \in Workers : \A c \in conn[w] :
          ~InPool(c) /\ \A b \in Borrowers : c \notin borrowed[b]
    /\ \A w \in Workers : pc[w] = "execute" => Cardinality(conn[w]) = 1

C4_Witness ==
    \E w1, w2 \in Workers :
        /\ w1 # w2
        /\ pc[w1] = "execute" /\ pc[w2] = "execute"
        /\ attempt[w1] > 0

\* C5: when the pool stays empty for the whole timeout, the acquire raises a
\* ConnectionError, and the execute call that could not obtain a connection
\* raises a ConnectionError.
C5_PoolExhaustionIsConnectionError ==
    \A w \in Workers :
        /\ PoolExhausted(last_exception[w]) => last_exception[w].type = "ConnectionError"
        /\ (pc[w] = "idle" /\ PoolExhausted(raised[w])) => surfaced[w] = "ConnectionError"

(***************************************************************************)
(* The claims about the translator, checked under SpecFilter and SpecKey.  *)
(***************************************************************************)
IsLeaf(e) == e.key \notin {S_and, S_or, S_not}

RECURSIVE LeafSeq(_)
RECURSIVE LeafSeqOfSubs(_)
\* the leaves of a filter, nested ones included, in the order they are written
LeafSeq(f) ==
    IF f = <<>> THEN <<>>
    ELSE (IF IsLeaf(Head(f)) THEN <<Head(f)>> ELSE LeafSeqOfSubs(Head(f).subs))
         \o LeafSeq(Tail(f))
LeafSeqOfSubs(l) ==
    IF l = <<>> THEN <<>> ELSE LeafSeq(Head(l)) \o LeafSeqOfSubs(Tail(l))

NonNullLeaves(f) == SelectSeq(LeafSeq(f), LAMBDA e : e.vkind # "null")

RECURSIVE RemoveNulls(_)
RECURSIVE RemoveNullsOfSubs(_)
\* the filter without its null-valued leaves, at every nesting level
RemoveNulls(f) ==
    IF f = <<>> THEN <<>>
    ELSE LET e == Head(f)
         IN (IF IsLeaf(e) THEN (IF e.vkind = "null" THEN <<>> ELSE <<e>>)
             ELSE <<[e EXCEPT !.subs = RemoveNullsOfSubs(@)]>>)
            \o RemoveNulls(Tail(f))
RemoveNullsOfSubs(l) ==
    IF l = <<>> THEN <<>> ELSE <<RemoveNulls(Head(l))>> \o RemoveNullsOfSubs(Tail(l))

RECURSIVE SumSeq(_)
SumSeq(q) == IF q = <<>> THEN 0 ELSE Head(q) + SumSeq(Tail(q))

IsListMembership(e) == e.vkind = "list" /\ (e.key = K_b_in \/ e.key = K_c_not_in)

Placeholders_in(sql) == SelectSeq(sql, LAMBDA t : t.tok = "$p")
Idents_in(sql) == SelectSeq(sql, LAMBDA t : t.tok = "ident")

\* the nesting level of the token at position i: the parentheses open before it
Level(sql, i) ==
    Cardinality({j \in 1..(i - 1) : sql[j].tok = "("})
    - Cardinality({j \in 1..(i - 1) : sql[j].tok = ")"})
TokensAtLevel(sql, lvl, t) ==
    Cardinality({i \in 1..Len(sql) : sql[i].tok = t /\ Level(sql, i) = lvl})

\* C6: for a filter without null leaves the parameter map has one entry for
\* each leaf, plus elementCount - 1 for each list-valued in / not_in leaf.
C6_ParamCountIsLeafCount ==
    (translated /\ NonNullLeaves(where) = LeafSeq(where)) =>
        Len(params) = SumSeq([i \in 1..Len(LeafSeq(where)) |->
                                IF IsListMembership(LeafSeq(where)[i])
                                THEN Len(LeafSeq(where)[i].elems)
                                ELSE 1])

\* C7: the keys of the parameter map are p0 .. p(n-1) in this order, without
\* gap or duplicate, also across nested _and / _or / _not, and the
\* placeholders of the SQL are keys of the map in strictly increasing order
\* from left to right.
C7_ParamNamesIncrease ==
    translated =>
        /\ \A i \in 1..Len(params) : params[i].name = i - 1
        /\ LET ph == Placeholders_in(where_sql)
           IN /\ \A i \in 1..Len(ph) : ph[i].n < Len(params)
              /\ \A i, j \in 1..Len(ph) : i < j => ph[i].n < ph[j].n

C7_Witness ==
    /\ translated
    /\ Len(params) >= 2
    /\ Len(Placeholders_in(where_sql)) >= 2
    /\ \E i \in 2..Len(where) : ~IsLeaf(where[i]) /\ NonNullLeaves(<<where[i]>>) # <<>>

\* C8: the filter without its null-valued leaves translates to the same SQL
\* and the same parameter map; a null leaf adds neither a parameter nor a
\* condition.
C8_NullLeavesDropped ==
    translated =>
        /\ translate_where(RemoveNulls(where)).sql = where_sql
        /\ translate_where(RemoveNulls(where)).params = params
        /\ Len(Idents_in(where_sql)) = Len(NonNullLeaves(where))

C8_Witness ==
    /\ translated
    /\ Len(where) = 2
    /\ ~IsLeaf(where[2])
    /\ Len(LeafSeq(<<where[2]>>)) > Len(NonNullLeaves(<<where[2]>>))
    /\ IsLeaf(where[1]) /\ where[1].vkind # "null"

\* C10 as written: an _and / _or over k sub-filters compiles to the leaf
\* conditions of its sub-filters, joined by exactly k - 1 AND / OR tokens at
\* the nesting level of the combinator.
C10_JoinedByKMinusOne ==
    (translated /\ Len(where) = 1 /\ where[1].key \in {S_and, S_or}) =>
        /\ Len(Idents_in(where_sql)) = Len(NonNullLeaves(where))
        /\ TokensAtLevel(where_sql, 1, IF where[1].key = S_and THEN "AND" ELSE "OR")
               = Len(where[1].subs) - 1

\* the sub-filters of an _and / _or that produce at least one condition
ProducingSubs(e) == SelectSeq(e.subs, LAMBDA f : NonNullLeaves(f) # <<>>)

\* C10 amended: an _and / _or compiles to the leaf conditions of its
\* sub-filters; the sub-filters that produce no condition are skipped; each of
\* the m others is parenthesised and the m results are joined by exactly m - 1
\* AND / OR tokens inside one pair of parentheses; with m = 0 the combinator
\* compiles to nothing.
C10_JoinedByProducingMinusOne ==
    (translated /\ Len(where) = 1 /\ where[1].key \in {S_and, S_or}) =>
        LET m == Len(ProducingSubs(where[1]))
            joiner == IF where[1].key = S_and THEN "AND" ELSE "OR"
        IN /\ Len(Idents_in(where_sql)) = Len(NonNullLeaves(where))
           /\ m = 0 => where_sql = <<>>
           /\ m > 0 =>
                /\ where_sql[1].tok = "(" /\ where_sql[Len(where_sql)].tok = ")"
                /\ TokensAtLevel(where_sql, 0, "(") = 1
                /\ TokensAtLevel(where_sql, 1, "(") = m
                /\ TokensAtLevel(where_sql, 1, joiner) = m - 1
                /\ \A i \in 1..Len(where_sql) :
                      Level(where_sql, i) = 1 => where_sql[i].tok \in {"(", ")", joiner}

C10_Witness ==
    /\ translated
    /\ Len(where) = 1
    /\ where[1].key = S_or
    /\ Len(where[1].subs) = 2
    /\ Len(ProducingSubs(where[1])) = 1
    /\ Len(LeafSeq(where)) = 2
    /\ where_sql # <<>>

(***************************************************************************)
(* The field/operator split, checked under SpecKey.                        *)
(***************************************************************************)
\* the split the claim describes, on the parts the key was joined from
SplitByTrailingTokens(parts, k) ==
    IF Len(parts) >= 2 /\ LastParts(parts, 2) = <<<<"n", "o", "t">>, S_in>>
    THEN [field_name |-> join(<<"_">>, ButLastParts(parts, 2)), operator |-> S_not_in]
    ELSE IF parts[Len(parts)] \in SuffixOperators
    THEN [field_name |-> join(<<"_">>, ButLastParts(parts, 1)),
          operator |-> parts[Len(parts)]]
    ELSE [field_name |-> k, operator |-> S_eq]

\* C9 as written: a trailing not_in is the operator; otherwise a trailing
\* token that is an operator name is the operator and the rest is the field;
\* otherwise the whole key is the field and the operator is eq.
C9_LongestTrailingSuffix ==
    parsed =>
        /\ field_name = SplitByTrailingTokens(keyparts, key).field_name
        /\ operator = SplitByTrailingTokens(keyparts, key).operator

\* C9 amended: the same for a key of two or more underscore-separated tokens;
\* a key of a single token (without underscore), an operator name included, is
\* entirely the field name and its operator is eq.
C9_LongestTrailingSuffixOfSeveral ==
    parsed =>
        IF Len(keyparts) = 1
        THEN field_name = key /\ operator = S_eq
        ELSE /\ field_name = SplitByTrailingTokens(keyparts, key).field_name
             /\ operator = SplitByTrailingTokens(keyparts, key).operator

C9_Witness ==
    /\ parsed
    /\ Len(keyparts) = 3
    /\ operator = S_not_in
    /\ field_name = <<"m", "i", "n">>

(***************************************************************************)
(* Concurrent translation, checked under SpecCall.                         *)
(***************************************************************************)
\* C11: whatever the other caller does meanwhile, a call of translate_where
\* returns the SQL and the parameter map it returns when it runs alone.
C11_TranslateReentrant ==
    \A c \in Callers :
        callPc[c] = "done" =>
            /\ callResult[c].sql = translate_where(callWhere[c]).sql
            /\ callResult[c].params = translate_where(callWhere[c]).params

(***************************************************************************)
(* The placeholder substitution, checked under SpecSub.                    *)
(***************************************************************************)
RECURSIVE PositionalText(_, _)
\* the SQL text with $<i+1> where the statement has $p<i>, for the
\* parameters from index i on
PositionalText(used, i) ==
    IF i > Len(used) THEN <<>>
    ELSE (IF used[i] THEN <<"x", "=", "$">> \o Digits(i) \o <<" ">> ELSE <<>>)
         \o PositionalText(used, i + 1)

\* C12: the statement handed to the engine is the SQL with every $p<i>
\* replaced by $<i+1> and nothing else changed, and the value list has
\* params[p<i>] at position i+1, for every number of parameters.
C12_PlaceholdersBecomePositional ==
    sub_pc = "executed" =>
        /\ sql_with_params = PositionalText(stmt_used, 1)
        /\ stmt_params # <<>> =>
              param_values = [i \in 1..Len(stmt_params) |-> stmt_params[i].value]

(***************************************************************************)
(* The surfaced errors, checked under SpecErr.                             *)
(***************************************************************************)
\* the engine text is part of the message
RawTextIn(message, text) ==
    /\ text # <<>>
    /\ \E i \in 1..Len(message) :
          i + Len(text) - 1 <= Len(message) /\ SubSeq(message, i, i + Len(text) - 1) = text

\* C13: the error of a failed execution has one of the classified kinds, and
\* an engine error of type ConnectionException or IOException is surfaced as
\* ConnectionError.
C13_ClassifiedByRawError ==
    q_pc = "raised" =>
        /\ q_error.kind \in {"SchemaError", "FilterError", "QueryError", "ConnectionError"}
        /\ q_raw.type \in {"ConnectionException", "IOException"} =>
              q_error.kind = "ConnectionError"

\* C14: on every branch the error has at least one suggestion and its context
\* map holds the text of the engine error.
C14_SuggestionsAndOriginalText ==
    q_pc = "raised" =>
        /\ q_error.suggestions # <<>>
        /\ \E it \in q_error.context : it[2] = q_raw.text

\* C15: the error raised by a failed execution carries the correlation id of
\* the execution: the one of the context, or the one generated for the call.
C15_ErrorCarriesCorrelationId ==
    q_pc = "raised" => q_error.correlation_id = q_correlation_id

\* C16 as written: on every branch the engine text is in the context map only,
\* never in the message.
C16_RawTextNeverInMessage ==
    q_pc = "raised" => ~RawTextIn(q_error.message, q_raw.text)

\* C16 amended: the engine text is in the message of the generic fallback
\* only ("Database error: " followed by the text); the messages of the
\* column, type-mismatch, syntax, connection and catalog branches are fixed
\* and do not contain it.
C16_RawTextInGenericMessageOnly ==
    q_pc = "raised" =>
        /\ q_error.branch # "generic" => ~RawTextIn(q_error.message, q_raw.text)
        /\ q_error.branch = "generic" =>
              q_error.message = <<"Database error: ">> \o q_raw.text

C16_Witness ==
    /\ q_pc = "raised"
    /\ q_error.branch = "syntax"
    /\ q_raw.type = "IOException"
    /\ Len(q_raw.text) = 2
    /\ HasItem(q_context, "correlation_id")

(***************************************************************************)
(* Totality of the translation, checked under SpecTotal.                   *)
(***************************************************************************)
\* C17: translate_where returns a (sql, params) result for every filter,
\* also one with malformed operator / value combinations or unexpected
\* values under the combinator keys: it never raises.
C17_TranslateNeverRaises == ~translate_raised

(***************************************************************************)
(* The HAVING clause, checked under SpecHaving.                            *)
(***************************************************************************)
\* the condition the predicate of annotation a is to become, on parameter p
HavingConditionOf(a, p) ==
    <<IF a.func = S_count THEN Aggregate("COUNT", <<"*">>)
      ELSE Aggregate(upper(a.func), a.field),
      Tok(HavingComparison(a.op)), Placeholder(p)>>

\* the set fields of the having input, in annotation order
SetAnnotations ==
    SelectSeq(HavingAnnotations,
              LAMBDA a : \E i \in h_having : HavingAnnotations[i] = a)

\* C18: every set predicate of the having input allocates one parameter and
\* contributes one condition on that parameter, COUNT(*) <op> $p for
\* count_<op> and FUNC(field) <op> $p for <field>_<func>_<op>, and the names
\* of the HAVING parameters are not names of WHERE parameters.
C18_HavingOneConditionEach ==
    h_pc = "built" =>
        LET n == Len(WhereParams(h_where))
        IN /\ Len(h_params) = n + Cardinality(h_having)
           /\ \A i, j \in 1..Len(h_params) : i # j => h_params[i].name # h_params[j].name
           /\ Len(h_conditions) = Cardinality(h_having)
           /\ \A i \in 1..Len(h_conditions) :
                 h_conditions[i] = HavingConditionOf(SetAnnotations[i], n + i - 1)

(***************************************************************************)
(* The reshaped rows, checked under SpecReshape.                           *)
(***************************************************************************)
\* the items of the row that are results of a function FUNC(field) as field_func
FunctionItems ==
    SelectSeq(r_row, LAMBDA it : it.name # S__count
                                 /\ \A i \in 1..Len(r_group_by) : r_group_by[i] # it.name)
FieldOf(alias) == CHOOSE c \in ColumnNames : \E f \in AggFunctionSet : alias = c \o <<"_">> \o f
FuncOf(alias) == CHOOSE f \in AggFunctionSet : alias = FieldOf(alias) \o <<"_">> \o f

\* the nested object under key k holds, for every function, the value of
\* the row's <field>_<func> or null
NestedObjectAt(k, field) ==
    /\ k \in DOMAIN r_instance
    /\ r_instance[k].kind = "agg"
    /\ \A f \in AggFunctionSet :
          r_instance[k].fields[f] = DictGet(r_row, field \o <<"_">> \o f, Null)

C20_GroupByColumnsPassThrough ==
    r_pc = "reshaped" =>
        \A i \in 1..Len(r_group_by) :
            /\ r_group_by[i] \in DOMAIN r_instance
            /\ r_instance[r_group_by[i]] = DictGet(r_row, r_group_by[i], Null)

(***************************************************************************)
(* Values are bound, never written into the SQL; checked under SpecFilter. *)
(***************************************************************************)
RECURSIVE Revalue(_)
RECURSIVE RevalueSubs(_)
\* the same filter with every scalar value and every list element replaced
\* by another value
Revalue(f) ==
    IF f = <<>> THEN <<>>
    ELSE LET e == Head(f)
         IN <<IF IsLeaf(e)
              THEN [e EXCEPT !.val = IF e.vkind = "scalar" THEN @ + 1 ELSE @,
                             !.elems = [i \in 1..Len(@) |-> @[i] + 1]]
              ELSE [e EXCEPT !.subs = RevalueSubs(@)]>>
            \o Revalue(Tail(f))
RevalueSubs(l) ==
    IF l = <<>> THEN <<>> ELSE <<Revalue(Head(l))>> \o RevalueSubs(Tail(l))

ParamValues(ps) == {ps[i].value : i \in 1..Len(ps)}

\* C21: a filter that differs only in its scalar values and list element
\* values translates to the same SQL; every non-null leaf value and every
\* list element is a value of the parameter map, and the SQL's only
\* value-bearing tokens are placeholders.
C21_ValuesBoundNeverEmbedded ==
    translated =>
        /\ translate_where(Revalue(where)).sql = where_sql
        /\ \A i \in 1..Len(where_sql) : where_sql[i].tok # "$p" => where_sql[i].n = 0
        /\ \A i \in 1..Len(NonNullLeaves(where)) :
              LET e == NonNullLeaves(where)[i]
              IN /\ ValueOf(e) \in ParamValues(params)
                 /\ IsListMembership(e) =>
                       \A j \in 1..Len(e.elems) : ScalarValue(e.elems[j]) \in ParamValues(params)

C21_Witness ==
    /\ translated
    /\ Revalue(where) # where
    /\ \E i \in 1..Len(where) : ~IsLeaf(where[i])
    /\ \E i \in 1..Len(NonNullLeaves(where)) : NonNullLeaves(where)[i].vkind = "scalar"
    /\ \E i \in 1..Len(NonNullLeaves(where)) : NonNullLeaves(where)[i].vkind = "list"
    /\ translate_where(Revalue(where)).params # params

(***************************************************************************)
(* The backoff schedule and the pool's conservation, checked under Spec.   *)
(***************************************************************************)
\* C25: the first delay is retry_delay and each later one the delay before
\* it times retry_backoff, that is retry_delay * retry_backoff^(i-1) for the
\* i-th retry; a delay is taken only after a retryable failure that is not
\* the last attempt, so an execution that has returned or raised after n
\* attempts has slept n - 1 delays, at most max_retries.
C25_BackoffSchedule ==
    \A w \in Workers :
        /\ slept[w] # <<>> => slept[w][1] = retry_delay
        /\ \A i \in 2..Len(slept[w]) : slept[w][i] = slept[w][i - 1] * retry_backoff
        /\ Len(slept[w]) <= max_retries
        /\ pc[w] = "sleep" => IsRetryable(last_exception[w]) /\ attempt[w] < max_retries
        /\ pc[w] \in {"returned", "raised"} =>
              /\ Len(slept[w]) = calls[w] - 1
              /\ Len(slept[w]) = attempt[w]

C25_Witness ==
    \E w \in Workers :
        /\ pc[w] = "raised"
        /\ max_retries = 2
        /\ slept[w] = <<retry_delay, retry_delay * retry_backoff>>
        /\ IsRetryable(raised[w])

\* C29: a worker that waits out a delay, or is about to start its next
\* attempt, holds no connection: the connection of the failed attempt is
\* back in the pool or already with someone else.
C29_NoConnectionDuringDelay ==
    \A w \in Workers :
        pc[w] \in {"sleep", "attempt"} =>
            /\ conn[w] = {}
            /\ \A c \in Conns :
                  \/ InPool(c)
                  \/ \E v \in Workers \ {w} : c \in conn[v]
                  \/ \E b \in Borrowers : c \in borrowed[b]

C29_Witness ==
    \E w, v \in Workers :
        /\ pc[w] = "sleep"
        /\ attempt[w] = 1
        /\ pc[v] = "execute"
        /\ Len(pool) = MaxWorkers - 1

\* C30: the idle connections and the borrowed ones are the N connections of
\* the pool, each once, so that idle plus borrowed is N and at most N are
\* borrowed; none is closed.
C30_PoolConservation ==
    LET held == UNION ({conn[w] : w \in Workers} \cup {borrowed[b] : b \in Borrowers})
    IN /\ Len(pool) + Cardinality(held) = MaxWorkers
       /\ \A c \in Conns : InPool(c) \/ c \in held
       /\ closed = {}

C30_Witness ==
    \E w \in Workers : \E b \in Borrowers :
        /\ pool = <<>>
        /\ pc[w] = "execute"
        /\ attempt[w] > 0
        /\ borrowed[b] # {}
        /\ \E v \in Workers : retryableFailed[v] > 0 /\ PoolExhausted(last_exception[v])

(***************************************************************************)
(* The reports and the counters of execute_query, checked under SpecStats. *)
(***************************************************************************)
\* C22: a call that has returned or raised has reported exactly one outcome
\* to the collector: its row count if it returned, its error message if it
\* raised, with or without a context.
C22_OneOutcomeReported ==
    \A c \in QueryCalls :
        s_pc[c] = "done" =>
            /\ Len(s_reports[c]) = 1
            /\ s_reports[c][1].row_count = s_outcome[c].row_count
            /\ s_reports[c][1].error = s_outcome[c].error

\* C28: query_count is the number of calls that succeeded since the last
\* reset and the total time the sum of their durations, whatever failed
\* meanwhile; get_stats returns these with the average total/count, 0 for
\* count 0.
C28_StatsCountSuccesses ==
    /\ query_count = Len(s_completed)
    /\ total_query_time = SumSeq(s_completed)
    /\ get_stats.query_count = Len(s_completed)
    /\ get_stats.total_query_time_ms = SumSeq(s_completed)
    /\ get_stats.average_query_time_ms =
          (IF s_completed = <<>> THEN [num |-> 0, den |-> 1]
           ELSE [num |-> SumSeq(s_completed), den |-> Len(s_completed)])
    /\ s_stats.query_count = 0 =>
          s_stats.total_query_time_ms = 0 /\ s_stats.average_query_time_ms.num = 0
    /\ s_stats.query_count > 0 =>
          s_stats.average_query_time_ms =
              [num |-> s_stats.total_query_time_ms, den |-> s_stats.query_count]

C28_Witness ==
    /\ query_count = 1
    /\ total_query_time = 2
    /\ s_stats.query_count = 2
    /\ s_stats.total_query_time_ms = 3
    /\ \E c \in QueryCalls : s_pc[c] = "done" /\ s_outcome[c].kind = "raised"
    /\ \E c \in QueryCalls : s_pc[c] = "running"

(***************************************************************************)
(* The two retry wrappers, checked under SpecRetry.                        *)
(***************************************************************************)
\* C26: on the same policy and the same outcomes of the successive calls,
\* wrapper and async_wrapper make the same number of attempts, wait the
\* same delays and end with the same result or the same error.
C26_WrappersEquivalent ==
    /\ (w_sync # NotRun /\ w_async # NotRun) =>
          /\ w_sync.attempts = w_async.attempts
          /\ w_sync.delays = w_async.delays
          /\ w_sync.result = w_async.result
          /\ w_sync.error = w_async.error
    /\ Len(w_outcomes) = w_policy.max_retries + 1 =>
          wrapper(w_policy, w_outcomes) = async_wrapper(w_policy, w_outcomes)

C26_Witness ==
    /\ w_sync # NotRun /\ w_async # NotRun
    /\ w_policy.max_retries = 2
    /\ w_policy.backoff = 3
    /\ w_async.delays = <<50, 150>>
    /\ w_async.result = "raised"
    /\ w_async.attempts = 3
    /\ ~IsRetryable(w_async.error)

(***************************************************************************)
(* The replication at construction, checked under SpecCopy.                *)
(***************************************************************************)
\* C27: when the replication loop has run, its N cycles acquired the N
\* pooled connections, each once; on every connection every table was
\* tried, whatever failed before it; and when construction goes on, with or
\* without a failure, the N connections are in the pool and none is closed.
C27_ReplicatedIntoEachConnection ==
    /\ copy_pc = "done" =>
          /\ Len(pool) = MaxWorkers
          /\ {pool[i] : i \in 1..Len(pool)} = Conns
          /\ closed = {}
          /\ copy_conn = {}
    /\ (copy_pc = "done" /\ copy_tables # <<>>) =>
          /\ Len(copy_visited) = MaxWorkers
          /\ {copy_visited[i] : i \in 1..Len(copy_visited)} = Conns
          /\ \A c \in Conns : \A t \in 1..MaxTables : copy_made[c][t] # "untried"
    /\ \A i, j \in 1..Len(copy_visited) : i # j => copy_visited[i] # copy_visited[j]
    /\ copy_pc = "tables" =>
          \A c \in copy_conn : \A k \in 1..(copy_table - 1) :
              copy_made[c][copy_tables[k]] # "untried"

C27_Witness ==
    /\ copy_pc = "done"
    /\ Len(copy_visited) = MaxWorkers
    /\ \E c \in Conns : copy_made[c][1] = "nothing" /\ copy_made[c][MaxTables] = "copied"
    /\ \E c \in Conns : copy_made[c][1] = "copied"

(***************************************************************************)
(* Cancellation, checked under SpecLifeFair, and close(), checked under    *)
(* SpecLife.                                                               *)
(***************************************************************************)
\* C23: when the caller is cancelled while its statement is with a worker,
\* the worker goes on to the end of the execution, retries included, and
\* holds no connection then.
C23_CancelledRunsToCompletion ==
    \A w \in Workers :
        (cancelled[w] # -1) ~> (pc[w] \in {"returned", "raised"} /\ conn[w] = {}
                                 /\ Len(pool) + Cardinality({v \in Workers : conn[v] # {}})
                                      + Cardinality(closed) = MaxWorkers)

C23_Witness ==
    \E w \in Workers :
        /\ cancelled[w] = 0
        /\ attempt[w] = 2
        /\ pc[w] = "returned"
        /\ conn[w] = {}
        /\ closing = "open"

\* C24: once close() is emptying the pool or has returned, no worker is
\* executing or about to; when it has returned the pool is empty and every
\* one of the N connections is closed; a second close() changes none of
\* this.
C24_CloseDrainsBoth ==
    /\ closing \in {"close_all", "closed"} =>
          \A w \in Workers : pc[w] \in {"idle", "returned", "raised"} /\ conn[w] = {}
    /\ closing = "closed" => pool = <<>> /\ closed = Conns
    /\ close_calls > 1 => pool = <<>> /\ closed = Conns
    /\ \A c \in closed : ~InPool(c) /\ \A w \in Workers : c \notin conn[w]

C24_Witness ==
    /\ closing = "closed"
    /\ close_calls = 2
    /\ closed = Conns
    /\ \E w \in Workers : pc[w] = "raised" /\ calls[w] > 1
    /\ \E w \in Workers : pc[w] = "returned" /\ cancelled[w] # -1

====
